---------------------------- MODULE Spec2Model ----------------------------
(***************************************************************************)
(* FAIRGAME: the game simulation engine (FairGame, GameRound, Agent,       *)
(* GameHistory) and the payoff matrix (PayoffMatrix).                      *)
(*                                                                         *)
(* Texts (display names, responses of the decision service) are sequences  *)
(* of one-character strings, so that lower() and the substring test of the *)
(* strategy extraction are computed and not assumed.  Python dicts keep    *)
(* their insertion order: an ordered dict is a sequence of entries.        *)
(***************************************************************************)
EXTENDS Integers, Sequences, FiniteSets, TLC

\* ------------------------------------------------------------------------
\* Bounds of the model
\* ------------------------------------------------------------------------
MaxRounds == 2

MaxCalls == 2

\* ------------------------------------------------------------------------
\* Program constants
\* ------------------------------------------------------------------------
\* a retry budget that is off by one
Tries_plus_one == 10 + 1

\* @retry(tries=10, delay=1) on GameRound._execute_agent_strategy
Tries == 10

\* Python's None where a combination key, a team id or an agent name is expected
None == "None"

\* Python's None where a text (a strategy key, a display name) is expected:
\* no text, every text being a sequence of single characters
NoneText == << "None" >>

\* ------------------------------------------------------------------------
\* Texts
\* ------------------------------------------------------------------------
\* str.lower() on one character (the upper-case letters the texts use)
LowerChar(c) ==
    CASE c = "A" -> "a"
      [] c = "B" -> "b"
      [] c = "C" -> "c"
      [] OTHER -> c

\* str.lower()
Lower(text) == [i \in 1..Len(text) |-> LowerChar(text[i])]

\* Python's `sub in text` for strings
Contains(sub, text) ==
    \E i \in 0..(Len(text) - Len(sub)) : SubSeq(text, i + 1, i + Len(sub)) = sub

Betray == <<"B", "e", "t", "r", "a", "y">>

Cooperate == <<"C", "o", "o", "p", "e", "r", "a", "t", "e">>

\* the strategy keys of the configurations
Strategy1 == <<"s", "t", "r", "a", "t", "e", "g", "y", "1">>

Strategy2 == <<"s", "t", "r", "a", "t", "e", "g", "y", "2">>

\* ------------------------------------------------------------------------
\* Payoff matrices (matrix_data for one language)
\*   strategies   : ordered  key -> display name
\*   weights      : weight label -> number
\*   combinations : ordered  combination key -> sequence of strategy keys
\*   matrix       : combination key -> sequence of weight labels
\* ------------------------------------------------------------------------
PDWeights == [w1 |-> 5, w2 |-> 0, w3 |-> 3, w4 |-> 1]

PDStrategies ==
    << [key |-> Strategy1, name |-> Betray],
       [key |-> Strategy2, name |-> Cooperate] >>

PDCombinations ==
    << [key |-> "combination1", strats |-> <<Strategy1, Strategy1>>],
       [key |-> "combination2", strats |-> <<Strategy1, Strategy2>>],
       [key |-> "combination3", strats |-> <<Strategy2, Strategy1>>],
       [key |-> "combination4", strats |-> <<Strategy2, Strategy2>>] >>

PDLabels ==
    [combination1 |-> <<"w3", "w3">>,
     combination2 |-> <<"w1", "w2">>,
     combination3 |-> <<"w2", "w1">>,
     combination4 |-> <<"w4", "w4">>]

\* The Prisoner's Dilemma matrix of the unit tests
PrisonerDilemma ==
    [strategies |-> PDStrategies, weights |-> PDWeights,
     combinations |-> PDCombinations, matrix |-> PDLabels]

\* A matrix that lacks the combination (strategy2, strategy1)
IncompleteMatrix ==
    [PrisonerDilemma EXCEPT
        !.combinations = << PDCombinations[1], PDCombinations[2], PDCombinations[4] >>]

\* A matrix whose combination4 carries one weight label for two players
ShortWeightsMatrix ==
    [PrisonerDilemma EXCEPT !.matrix = [PDLabels EXCEPT !.combination4 = <<"w4">>]]

\* A matrix whose combination1 carries three weight labels for two players
LongWeightsMatrix ==
    [PrisonerDilemma EXCEPT
        !.matrix = [PDLabels EXCEPT !.combination1 = <<"w3", "w3", "w1">>]]

\* A two-player game that is not symmetric: the payoffs of (strategy2,
\* strategy1) are not those of (strategy1, strategy2) swapped
AsymmetricMatrix ==
    [PrisonerDilemma EXCEPT
        !.matrix = [PDLabels EXCEPT !.combination3 = <<"w3", "w4">>]]

\* ------------------------------------------------------------------------
\* PayoffMatrix
\* ------------------------------------------------------------------------
\* the first of the positions of an ordered dict that a loop stops at, 0 when
\* the loop falls through
FirstIndex(hits) ==
    IF hits = {} THEN 0 ELSE CHOOSE i \in hits : \A j \in hits : i <= j

\* a lookup that gives the display name of the first strategy, whatever the key
StrategyName_first(pm, key) == pm.strategies[1].name

\* PayoffMatrix.strategies[key]
StrategyName(pm, key) ==
    LET Is(e) == e.key = key
    IN  pm.strategies[FirstIndex({ix \in 1..Len(pm.strategies) : Is(pm.strategies[ix])})].name

\* name_to_key = {name: key for key, name in self.strategies.items()}
\* followed by name_to_key.get(name): a later key overwrites an earlier one
NameToKey(pm, name) ==
    LET hits == {i \in 1..Len(pm.strategies) : pm.strategies[i].name = name}
    IN  IF hits = {} THEN NoneText
        ELSE pm.strategies[CHOOSE i \in hits : \A j \in hits : j <= i].key

\* a lookup that ignores the order of the keys: the first combination that
\* stores the same keys, each as often
CombinationIndex_unordered(pm, strategy_list) ==
    LET Times(seq, x) == Cardinality({k \in 1..Len(seq) : seq[k] = x})
        Is(e) == /\ Len(e.strats) = Len(strategy_list)
                 /\ \A k \in 1..Len(strategy_list) :
                        Times(e.strats, strategy_list[k])
                            = Times(strategy_list, strategy_list[k])
    IN  FirstIndex({ix \in 1..Len(pm.combinations) : Is(pm.combinations[ix])})

\* the loop over combinations.items(): index of the first combination whose
\* stored sequence equals the given one, 0 when the loop falls through
CombinationIndex(pm, strategy_list) ==
    LET Is(e) == e.strats = strategy_list
    IN  FirstIndex({ix \in 1..Len(pm.combinations) : Is(pm.combinations[ix])})

\* a lookup that falls back on the first combination when none matches
get_combination_key_default(pm, round_strategies) ==
    LET i == CombinationIndex(pm, round_strategies)
    IN  [err |-> "none", key |-> pm.combinations[IF i = 0 THEN 1 ELSE i].key]

\* PayoffMatrix.get_combination_key: the key, or the raised ValueError
get_combination_key(pm, round_strategies) ==
    LET i == CombinationIndex(pm, round_strategies)
    IN  IF i = 0 THEN [err |-> "ValueError", key |-> None]
        ELSE [err |-> "none", key |-> pm.combinations[i].key]

\* position of an agent in a list of agents
IndexOf(seq, x) == CHOOSE i \in 1..Len(seq) : seq[i] = x

\* PayoffMatrix.attribute_scores on the agents `agents` (a list of distinct
\* agent names) whose score lists are sc: the new score lists and the error
attribute_scores(pm, agents, sc, round_strategies) ==
    LET found == get_combination_key(pm, round_strategies)
        weight_keys == pm.matrix[found.key]
        InList(a) == \E i \in 1..Len(agents) : agents[i] = a
    IN  IF found.err # "none" THEN [err |-> found.err, scores |-> sc]
        ELSE [err |-> "none",
              scores |->
                [a \in DOMAIN sc |->
                    IF InList(a) /\ IndexOf(agents, a) <= Len(weight_keys)
                    THEN Append(sc[a], pm.weights[weight_keys[IndexOf(agents, a)]])
                    ELSE sc[a]]]

\* a lookup that takes the names for strategy keys
get_weights_for_combination_keys(pm, strategy_list) ==
    LET i == CombinationIndex(pm, strategy_list)
        labels == pm.matrix[pm.combinations[i].key]
    IN  IF i = 0
        THEN [err |-> "ValueError: No matching combination found.", value |-> <<>>]
        ELSE [err |-> "none",
              value |-> [j \in 1..Len(labels) |-> pm.weights[labels[j]]]]

\* a lookup that skips the names it does not know
get_weights_for_combination_lenient(pm, strategy_list) ==
    LET Known(name) == NameToKey(pm, name) # NoneText
        known == SelectSeq(strategy_list, Known)
        key_list == [i \in 1..Len(known) |-> NameToKey(pm, known[i])]
        i == CombinationIndex(pm, key_list)
        labels == pm.matrix[pm.combinations[i].key]
    IN  IF i = 0
        THEN [err |-> "ValueError: No matching combination found.", value |-> <<>>]
        ELSE [err |-> "none",
              value |-> [j \in 1..Len(labels) |-> pm.weights[labels[j]]]]

\* PayoffMatrix.get_weights_for_combination: the tuple, or the raised error
get_weights_for_combination(pm, strategy_list) ==
    LET key_list == [i \in 1..Len(strategy_list) |-> NameToKey(pm, strategy_list[i])]
        i == CombinationIndex(pm, key_list)
        labels == pm.matrix[pm.combinations[i].key]
    IN  IF \E j \in 1..Len(strategy_list) : key_list[j] = NoneText
        THEN [err |-> "ValueError: Invalid strategy", value |-> <<>>]
        ELSE IF i = 0
        THEN [err |-> "ValueError: No matching combination found.", value |-> <<>>]
        ELSE [err |-> "none",
              value |-> [j \in 1..Len(labels) |-> pm.weights[labels[j]]]]

\* ------------------------------------------------------------------------
\* GameHistory
\* ------------------------------------------------------------------------
\* an update that replaces the old record by the new data
Merge_replace(old, data) == data

\* dict.update: the fields of data win over the fields of the old record
Merge(old, data) ==
    [f \in (DOMAIN old) \cup (DOMAIN data) |->
        IF f \in DOMAIN data THEN data[f] ELSE old[f]]

\* GameHistory.update_round on the rounds mapping
update_round(rounds, round_number, agent_name, data) ==
    LET withRound == IF round_number \in DOMAIN rounds THEN rounds
                     ELSE [r \in (DOMAIN rounds) \cup {round_number} |->
                              IF r \in DOMAIN rounds THEN rounds[r] ELSE << >>]
        rec == withRound[round_number]
        old == IF agent_name \in DOMAIN rec THEN rec[agent_name] ELSE << >>
    IN  [withRound EXCEPT ![round_number] =
            [a \in (DOMAIN rec) \cup {agent_name} |->
                IF a = agent_name THEN Merge(old, data) ELSE rec[a]]]

\* data.get(field): the value, none when the record has no such field
Get(data, field, none) == IF field \in DOMAIN data THEN data[field] ELSE none

\* GameHistory.describe: for every round the rows of its agents, each row
\* with the six fields describe copies; the rows of a round are kept by the
\* agent they are about
describe(rounds) ==
    [r \in DOMAIN rounds |->
        [agent_name \in DOMAIN rounds[r] |->
            [agent |-> agent_name,
             message |-> Get(rounds[r][agent_name], "message", NoneText),
             message_prompt |-> Get(rounds[r][agent_name], "message_prompt", None),
             choice_prompt |-> Get(rounds[r][agent_name], "choice_prompt", None),
             strategy |-> Get(rounds[r][agent_name], "strategy", NoneText),
             score |-> Get(rounds[r][agent_name], "score", None)]]]

\* ------------------------------------------------------------------------
\* FairGame: team aggregation and stop condition
\* ------------------------------------------------------------------------
\* number of occurrences of x in a list
Count(seq, x) == Cardinality({i \in 1..Len(seq) : seq[i] = x})

\* a vote in which, of the most frequent labels, the one met last wins
_majority_vote_last(choices) ==
    IF Len(choices) = 0 THEN NoneText
    ELSE LET best == {i \in 1..Len(choices) :
                        \A j \in 1..Len(choices) :
                            Count(choices, choices[j]) <= Count(choices, choices[i])}
         IN  choices[CHOOSE i \in best : \A j \in best : j <= i]

\* FairGame._majority_vote: Counter(choices).most_common()[0][0]; the sort of
\* most_common is stable, so among the most frequent labels the one that
\* occurs first in the list comes first
_majority_vote(choices) ==
    IF Len(choices) = 0 THEN NoneText
    ELSE LET best == {i \in 1..Len(choices) :
                        \A j \in 1..Len(choices) :
                            Count(choices, choices[j]) <= Count(choices, choices[i])}
         IN  choices[CHOOSE i \in best : \A j \in best : i <= j]

\* FairGame._aggregate_team_decisions followed by
\* [team_choices[tid] for tid in self.team_order]
TeamTuple(teams, round_strategies) ==
    [t \in 1..Len(teams) |->
        LET Chose(name) == name \in DOMAIN round_strategies
            members == SelectSeq(teams[t].members, Chose)
        IN  _majority_vote([k \in 1..Len(members) |-> round_strategies[members[k]]])]

\* FairGame._find_combination_key: the key or None
_find_combination_key(pm, strategy_list) ==
    LET i == CombinationIndex(pm, strategy_list)
    IN  IF i = 0 THEN None ELSE pm.combinations[i].key

\* a stop test that reads the entry before the last one
stop_condition_is_met_stale(pm, stop_conditions, cm) ==
    IF Len(cm) <= 1 THEN FALSE
    ELSE LET combination == _find_combination_key(pm, cm[Len(cm) - 1])
         IN  combination # None /\ combination \in stop_conditions

\* a stop test that is content with any entry of choices_made
stop_condition_is_met_any(pm, stop_conditions, cm) ==
    \E k \in 1..Len(cm) :
        LET combination == _find_combination_key(pm, cm[k])
        IN  combination # None /\ combination \in stop_conditions

\* FairGame.stop_condition_is_met
stop_condition_is_met(pm, stop_conditions, cm) ==
    IF Len(cm) = 0 THEN FALSE
    ELSE LET combination == _find_combination_key(pm, cm[Len(cm)])
         IN  combination # None /\ combination \in stop_conditions

\* position of a team id in team_order, 0 if it is not a team
TeamIndex(teams, tid) ==
    LET Is(e) == e.id = tid
    IN  FirstIndex({ix \in 1..Len(teams) : Is(teams[ix])})

\* a team scoring that pays an agent by its own place in the list of agents
_assign_team_scores_positional(pm, teams, agents, team_id, sc, ordered_strategies) ==
    LET comb_key == _find_combination_key(pm, ordered_strategies)
        payoffs == pm.matrix[comb_key]
        Place(a) == IF IndexOf(agents, a) <= Len(payoffs)
                    THEN IndexOf(agents, a) ELSE Len(payoffs)
        Bad(a) == team_id[a] = None
                  \/ \A t \in 1..Len(teams) : teams[t].id # team_id[a]
        firstBad == FirstIndex({ix \in 1..Len(agents) : Bad(agents[ix])})
    IN  IF comb_key = None THEN [err |-> "ValueError", scores |-> sc]
        ELSE IF Len(payoffs) # Len(teams) THEN [err |-> "ValueError", scores |-> sc]
        ELSE [err |-> IF firstBad = 0 THEN "none" ELSE "ValueError",
              scores |->
                [a \in DOMAIN sc |->
                    IF firstBad = 0 \/ IndexOf(agents, a) < firstBad
                    THEN Append(sc[a], pm.weights[payoffs[Place(a)]])
                    ELSE sc[a]]]

\* FairGame._assign_team_scores: the loop over self.agents.items() appends
\* agent by agent and stops at the first agent without a (known) team
_assign_team_scores(pm, teams, agents, team_id, sc, ordered_strategies) ==
    LET comb_key == _find_combination_key(pm, ordered_strategies)
        payoffs == pm.matrix[comb_key]
        Bad(a) == team_id[a] = None \/ TeamIndex(teams, team_id[a]) = 0
        firstBad == FirstIndex({ix \in 1..Len(agents) : Bad(agents[ix])})
    IN  IF comb_key = None THEN [err |-> "ValueError", scores |-> sc]
        ELSE IF Len(payoffs) # Len(teams) THEN [err |-> "ValueError", scores |-> sc]
        ELSE [err |-> IF firstBad = 0 THEN "none" ELSE "ValueError",
              scores |->
                [a \in DOMAIN sc |->
                    IF firstBad = 0 \/ IndexOf(agents, a) < firstBad
                    THEN Append(sc[a], pm.weights[payoffs[TeamIndex(teams, team_id[a])]])
                    ELSE sc[a]]]

\* ------------------------------------------------------------------------
\* GameRound
\* ------------------------------------------------------------------------
\* place of the first occurrence of sub in text, 0 if there is none
FirstOccurrence(sub, text) ==
    LET at == {i \in 1..(Len(text) - Len(sub) + 1) :
                  SubSeq(text, i, i + Len(sub) - 1) = sub}
    IN  IF at = {} THEN 0 ELSE CHOOSE i \in at : \A j \in at : i <= j

\* an extraction that takes the strategy named first in the text
FoundStrategy_by_position(pm, response) ==
    LET Place(i) == FirstOccurrence(Lower(pm.strategies[i].name), Lower(response))
        named == {i \in 1..Len(pm.strategies) : Place(i) > 0}
    IN  IF named = {} THEN NoneText
        ELSE pm.strategies[CHOOSE i \in named :
                              \A j \in named :
                                  Place(i) < Place(j) \/ (Place(i) = Place(j) /\ i <= j)].key

\* the strategy extraction of GameRound._execute_agent_strategy:
\* next(key for key, val in strategies.items() if val.lower() in response.lower())
FoundStrategy(pm, response) ==
    LET Named(e) == Contains(Lower(e.name), Lower(response))
        i == FirstIndex({ix \in 1..Len(pm.strategies) : Named(pm.strategies[ix])})
    IN  IF i = 0 THEN NoneText ELSE pm.strategies[i].key

\* a final update of the history that writes the strategies and no score
_update_round_history_strategy(rounds, round_number, agents, st, sc) ==
    LET Empty(a) == Len(st[a]) = 0 \/ Len(sc[a]) = 0
        firstBad == FirstIndex({ix \in 1..Len(agents) : Empty(agents[ix])})
        n == IF firstBad = 0 THEN Len(agents) ELSE firstBad - 1
        Rec(a) == [strategy |-> st[a][Len(st[a])]]
        RECURSIVE Write(_, _)
        Write(h, k) == IF k > n THEN h
                       ELSE Write(update_round(h, round_number, agents[k], Rec(agents[k])), k + 1)
    IN  [err |-> IF firstBad = 0 THEN "none" ELSE "IndexError",
         rounds |-> Write(rounds, 1)]

\* GameRound._update_round_history: agent by agent; last_strategy() or
\* last_score() of an agent with an empty list raises IndexError
_update_round_history(rounds, round_number, agents, st, sc) ==
    LET Empty(a) == Len(st[a]) = 0 \/ Len(sc[a]) = 0
        firstBad == FirstIndex({ix \in 1..Len(agents) : Empty(agents[ix])})
        n == IF firstBad = 0 THEN Len(agents) ELSE firstBad - 1
        Rec(a) == [strategy |-> st[a][Len(st[a])], score |-> sc[a][Len(sc[a])]]
        RECURSIVE Write(_, _)
        Write(h, k) == IF k > n THEN h
                       ELSE Write(update_round(h, round_number, agents[k], Rec(agents[k])), k + 1)
    IN  [err |-> IF firstBad = 0 THEN "none" ELSE "IndexError",
         rounds |-> Write(rounds, 1)]

\* ------------------------------------------------------------------------
\* Games: the arguments of FairGame.__init__
\* ------------------------------------------------------------------------
\* the team assignment FairGameFactory.create_agents gives to an agent:
\* the last team that lists it, None when no team does
TeamOf(teams, name) ==
    LET hits == {t \in 1..Len(teams) :
                    \E k \in 1..Len(teams[t].members) : teams[t].members[k] = name}
    IN  IF hits = {} THEN None
        ELSE teams[CHOOSE t \in hits : \A u \in hits : u <= t].id

\* the names of a list of agents
Names(agents) == {agents[i] : i \in 1..Len(agents)}

\* classic mode: two agents, teams is None
ClassicSetup ==
    [agents |-> <<"agent1", "agent2">>, team_mode |-> FALSE, teams |-> << >>]

\* team mode: team A votes with two members, team B with one
TeamSetup ==
    [agents |-> <<"agent1", "agent2", "agent3">>, team_mode |-> TRUE,
     teams |-> << [id |-> "A", members |-> <<"agent1", "agent2">>],
                  [id |-> "B", members |-> <<"agent3">>] >>]

\* team mode with an agent that no team lists
TeamlessAgentSetup ==
    [agents |-> <<"agent1", "agent2", "agent3">>, team_mode |-> TRUE,
     teams |-> << [id |-> "A", members |-> <<"agent1">>],
                  [id |-> "B", members |-> <<"agent2">>] >>]

\* team mode with one agent per team, the teams listed in the other order
\* than the agents
CrossedTeamSetup ==
    [agents |-> <<"agent1", "agent2">>, team_mode |-> TRUE,
     teams |-> << [id |-> "A", members |-> <<"agent2">>],
                  [id |-> "B", members |-> <<"agent1">>] >>]

Setups == {ClassicSetup, TeamSetup, TeamlessAgentSetup, CrossedTeamSetup}

Matrices == {PrisonerDilemma, IncompleteMatrix, ShortWeightsMatrix}

StopSets == {{"combination1"}, {"combination2", "combination4"}}

\* a game: the setup s played for n rounds on the matrix pm
Game(s, n, pm, stop, comm) ==
    [agents |-> s.agents, team_mode |-> s.team_mode, teams |-> s.teams,
     team_id |-> [a \in Names(s.agents) |-> TeamOf(s.teams, a)],
     n_rounds |-> n, payoff_matrix |-> pm, stop_conditions |-> stop,
     agents_communicate |-> comm]

\* games whose agents do not communicate
Configs ==
    {Game(s, n, pm, stop, FALSE) :
        s \in Setups, n \in 1..MaxRounds, pm \in Matrices, stop \in StopSets}

\* classic games of the Prisoner's Dilemma, with agents that communicate
\* before they choose and with agents that do not
CommConfigs ==
    {Game(ClassicSetup, n, PrisonerDilemma, stop, comm) :
        n \in 1..MaxRounds, stop \in StopSets, comm \in BOOLEAN}

\* ------------------------------------------------------------------------
\* Responses of the decision service
\* ------------------------------------------------------------------------
RespBetray == <<"b", "e", "t", "r", "a", "y">>

RespCooperate == <<"C", "o", "o", "p", "e", "r", "a", "t", "e", ".">>

RespNoStrategy == <<"n", "o">>

ChoiceResponses == {RespBetray, RespCooperate, RespNoStrategy}

MessageResponses == {RespCooperate, RespNoStrategy}

\* ------------------------------------------------------------------------
\* State
\* ------------------------------------------------------------------------
VARIABLES
    cfg,              \* the constructor arguments of the game
    current_round,    \* FairGame.current_round
    choices_made,     \* FairGame.choices_made
    strategies,       \* Agent.strategies of every agent
    scores,           \* Agent.scores of every agent
    history,          \* GameHistory.rounds
    pc,               \* "idle", "communicate", "choose", "score", "error"
    call_log,         \* the calls made on the game: "run", "run_round"
    round_number,     \* GameRound.round_number
    idx,              \* position in the loop over game.agents.values()
    tries,            \* _tries of the retry decorator
    round_strategies, \* the mapping GameRound.run builds
    request,          \* the last decision request and its outcome
    played,           \* number of rounds run_round completed
    err,              \* the exception that left the call, "none" if none
    op                \* the last direct call of a PayoffMatrix method or of
                      \* the strategy extraction: arguments and result

vars == << cfg, current_round, choices_made, strategies, scores, history, pc,
           call_log, round_number, idx, tries, round_strategies, request,
           played, err, op >>

\* the call in progress, or the last one made
CurrentCall == IF Len(call_log) = 0 THEN "none" ELSE call_log[Len(call_log)]

NoOp ==
    [name |-> "none", agents |-> << >>, input |-> << >>, err |-> "none",
     value |-> << >>, before |-> << >>]

NoRequest ==
    [round |-> 0, agent |-> None, phase |-> None, count |-> 0,
     failed |-> FALSE, response |-> << >>]

\* the decision request made now: count numbers the requests made to the same
\* agent in the same phase of the same round
NextRequest(phase, agent, failed, response) ==
    [round |-> round_number, agent |-> agent, phase |-> phase,
     count |-> IF request.round = round_number /\ request.agent = agent
                  /\ request.phase = phase
               THEN request.count + 1 ELSE 1,
     failed |-> failed, response |-> response]

\* FairGame.__init__ and Agent.__init__ for the game c
InitGame(c) ==
    /\ cfg = c
    /\ current_round = 1
    /\ choices_made = << >>
    /\ strategies = [a \in Names(cfg.agents) |-> << >>]
    /\ scores = [a \in Names(cfg.agents) |-> << >>]
    /\ history = << >>
    /\ pc = "idle"
    /\ call_log = << >>
    /\ round_number = 0
    /\ idx = 0
    /\ tries = 0
    /\ round_strategies = << >>
    /\ request = NoRequest
    /\ played = 0
    /\ err = "none"
    /\ op = NoOp

Init == \E c \in Configs : InitGame(c)

InitComm == \E c \in CommConfigs : InitGame(c)

\* the caller drives a game either by run() or by run_round()
DrivenBy(kind) == \A i \in 1..Len(call_log) : call_log[i] = kind

\* a round that begins with the communication phase whatever the game says
BeginRound_communicating(cr) ==
    /\ round_number' = cr
    /\ round_strategies' = << >>
    /\ idx' = 1
    /\ tries' = Tries
    /\ pc' = "communicate"

\* GameRound.__init__ and the entry of GameRound.run for round cr
BeginRound(cr) ==
    /\ round_number' = cr
    /\ round_strategies' = << >>
    /\ idx' = 1
    /\ tries' = Tries
    /\ pc' = IF cfg.agents_communicate THEN "communicate" ELSE "choose"

\* a loop condition that stops one round early
LoopCondition_strict(cr, cm) ==
    cr < cfg.n_rounds
    /\ ~ stop_condition_is_met(cfg.payoff_matrix, cfg.stop_conditions, cm)

\* the loop condition of FairGame.run
LoopCondition(cr, cm) ==
    cr <= cfg.n_rounds
    /\ ~ stop_condition_is_met(cfg.payoff_matrix, cfg.stop_conditions, cm)

\* a run() that starts again from the first round
Run_restarting ==
    /\ pc = "idle"
    /\ Len(call_log) < MaxCalls
    /\ DrivenBy("run")
    /\ call_log' = Append(call_log, "run")
    /\ current_round' = 1
    /\ IF LoopCondition(1, choices_made)
       THEN BeginRound(1)
       ELSE /\ pc' = "idle"
            /\ UNCHANGED << round_number, round_strategies, idx, tries >>
    /\ UNCHANGED << cfg, op, choices_made, strategies, scores,
                    history, request, played, err >>

\* a call of FairGame.run: up to the first decision request, or the return
Run ==
    /\ pc = "idle"
    /\ Len(call_log) < MaxCalls
    /\ DrivenBy("run")
    /\ call_log' = Append(call_log, "run")
    /\ IF LoopCondition(current_round, choices_made)
       THEN BeginRound(current_round)
       ELSE /\ pc' = "idle"
            /\ UNCHANGED << round_number, round_strategies, idx, tries >>
    /\ UNCHANGED << cfg, op, current_round, choices_made, strategies, scores,
                    history, request, played, err >>

\* a direct call of FairGame.run_round: up to the first decision request
RunRound ==
    /\ pc = "idle"
    /\ Len(call_log) < MaxCalls
    /\ DrivenBy("run_round")
    /\ call_log' = Append(call_log, "run_round")
    /\ BeginRound(current_round)
    /\ UNCHANGED << cfg, op, current_round, choices_made, strategies, scores,
                    history, request, played, err >>

\* GameRound.create_prompt: the prompt of an agent for a phase of the round,
\* kept as the arguments it is rendered from
Prompt(agent, phase) ==
    [agent |-> agent, round |-> round_number, phase |-> phase]

\* GameRound._execute_communication_phase, one agent: the request returns
Communicate(message) ==
    /\ pc = "communicate"
    /\ LET agent == cfg.agents[idx]
       IN  /\ request' = NextRequest("communicate", agent, FALSE, message)
           /\ history' = update_round(history, round_number, agent,
                                      [message_prompt |-> Prompt(agent, "communicate"),
                                       message |-> message])
    /\ IF idx < Len(cfg.agents)
       THEN idx' = idx + 1 /\ pc' = pc
       ELSE idx' = 1 /\ pc' = "choose"
    /\ UNCHANGED << cfg, op, current_round, choices_made, strategies, scores,
                    call_log, round_number, tries, round_strategies, played, err >>

\* a communication request that is retried like a choice request
CommunicateFails_retried ==
    /\ pc = "communicate"
    /\ request' = NextRequest("communicate", cfg.agents[idx], TRUE, << >>)
    /\ tries' = tries - 1
    /\ IF tries - 1 = 0
       THEN pc' = "error" /\ err' = "ServiceError"
       ELSE pc' = pc /\ err' = err
    /\ UNCHANGED << cfg, op, current_round, choices_made, strategies, scores,
                    history, call_log, round_number, idx, round_strategies,
                    played >>

\* GameRound._execute_communication_phase, one agent: the request raises
CommunicateFails ==
    /\ pc = "communicate"
    /\ request' = NextRequest("communicate", cfg.agents[idx], TRUE, << >>)
    /\ pc' = "error"
    /\ err' = "ServiceError"
    /\ UNCHANGED << cfg, op, current_round, choices_made, strategies, scores,
                    history, call_log, round_number, idx, tries,
                    round_strategies, played >>

\* a retry that swallows the last exception: the call returns
Retry_swallow(e) ==
    /\ tries' = tries - 1
    /\ IF tries - 1 = 0
       THEN pc' = "idle" /\ err' = e
       ELSE pc' = pc /\ err' = err
    /\ UNCHANGED << idx, strategies, round_strategies >>

\* the retry decorator after an attempt raised e
Retry(e) ==
    /\ tries' = tries - 1
    /\ IF tries - 1 = 0
       THEN pc' = "error" /\ err' = e
       ELSE pc' = pc /\ err' = err
    /\ UNCHANGED << idx, strategies, round_strategies >>

\* a choice that is written into the history of the round as soon as it is made
Choose_recording(response) ==
    /\ pc = "choose"
    /\ LET agent == cfg.agents[idx]
           found_strategy == FoundStrategy(cfg.payoff_matrix, response)
       IN  /\ request' = NextRequest("choose", agent, FALSE, response)
           /\ IF found_strategy # NoneText
              THEN /\ strategies' =
                        [strategies EXCEPT ![agent] =
                            Append(@, StrategyName(cfg.payoff_matrix, found_strategy))]
                   /\ round_strategies' =
                        [a \in (DOMAIN round_strategies) \cup {agent} |->
                            IF a = agent THEN found_strategy ELSE round_strategies[a]]
                   /\ history' =
                        update_round(history, round_number, agent,
                            [strategy |-> StrategyName(cfg.payoff_matrix,
                                                       found_strategy)])
                   /\ tries' = Tries
                   /\ IF idx < Len(cfg.agents)
                      THEN idx' = idx + 1 /\ pc' = pc
                      ELSE idx' = idx /\ pc' = "score"
                   /\ err' = err
              ELSE Retry("ValueError") /\ history' = history
    /\ UNCHANGED << cfg, op, current_round, choices_made, scores,
                    call_log, round_number, played >>

\* GameRound._execute_agent_strategy, one attempt: the request returns
Choose(response) ==
    /\ pc = "choose"
    /\ LET agent == cfg.agents[idx]
           found_strategy == FoundStrategy(cfg.payoff_matrix, response)
       IN  /\ request' = NextRequest("choose", agent, FALSE, response)
           /\ IF found_strategy # NoneText
              THEN /\ strategies' =
                        [strategies EXCEPT ![agent] =
                            Append(@, StrategyName(cfg.payoff_matrix, found_strategy))]
                   /\ round_strategies' =
                        [a \in (DOMAIN round_strategies) \cup {agent} |->
                            IF a = agent THEN found_strategy ELSE round_strategies[a]]
                   /\ tries' = Tries
                   /\ IF idx < Len(cfg.agents)
                      THEN idx' = idx + 1 /\ pc' = pc
                      ELSE idx' = idx /\ pc' = "score"
                   /\ err' = err
              ELSE Retry("ValueError")
    /\ UNCHANGED << cfg, op, current_round, choices_made, scores, history,
                    call_log, round_number, played >>

\* GameRound._execute_agent_strategy, one attempt: the request raises
ChooseFails ==
    /\ pc = "choose"
    /\ request' = NextRequest("choose", cfg.agents[idx], TRUE, << >>)
    /\ Retry("ServiceError")
    /\ UNCHANGED << cfg, op, current_round, choices_made, scores, history,
                    call_log, round_number, played >>

\* effective choices that are the choices of the agents in team mode too
EffectiveChoices_per_agent ==
    [i \in 1..Len(cfg.agents) |-> round_strategies[cfg.agents[i]]]

\* the effective choices of the round: per agent in classic mode, per team
\* (majority vote, in team_order) in team mode
EffectiveChoices ==
    IF cfg.team_mode
    THEN TeamTuple(cfg.teams, round_strategies)
    ELSE [i \in 1..Len(cfg.agents) |-> round_strategies[cfg.agents[i]]]

\* the "__teams__" record of FairGame.run_round
TeamRecord(tuple) ==
    LET ids == {cfg.teams[t].id : t \in 1..Len(cfg.teams)}
        labels == cfg.payoff_matrix.matrix[
                      _find_combination_key(cfg.payoff_matrix, tuple)]
    IN  [team_strategies |-> [tid \in ids |-> tuple[TeamIndex(cfg.teams, tid)]],
         team_payoffs |->
            [tid \in ids |->
                cfg.payoff_matrix.weights[labels[TeamIndex(cfg.teams, tid)]]]]

\* FairGame.run_round after GameRound.run returned: choices_made, scoring,
\* the team record and the final history update
Scoring ==
    LET tuple == EffectiveChoices
        pm == cfg.payoff_matrix
        scored == IF cfg.team_mode
                  THEN _assign_team_scores(pm, cfg.teams, cfg.agents,
                                           cfg.team_id, scores, tuple)
                  ELSE attribute_scores(pm, cfg.agents, scores, tuple)
        withTeams == IF cfg.team_mode
                     THEN update_round(history, round_number, "__teams__",
                                       TeamRecord(tuple))
                     ELSE history
        final == _update_round_history(withTeams, round_number, cfg.agents,
                                       strategies, scored.scores)
    IN  [choices_made |-> Append(choices_made, tuple),
         scores |-> scored.scores,
         history |-> IF scored.err # "none" THEN history ELSE final.rounds,
         err |-> IF scored.err # "none" THEN scored.err ELSE final.err]

\* the rest of FairGame.run_round once every agent has chosen and, when the
\* round was started by run(), the increment and the next loop test of run()
Score ==
    /\ pc = "score"
    /\ LET r == Scoring
       IN  /\ choices_made' = r.choices_made
           /\ scores' = r.scores
           /\ history' = r.history
           /\ IF r.err # "none"
              THEN /\ pc' = "error"
                   /\ err' = r.err
                   /\ UNCHANGED << current_round, played, round_number,
                                   round_strategies, idx, tries >>
              ELSE /\ err' = err
                   /\ played' = played + 1
                   /\ IF CurrentCall = "run"
                      THEN /\ current_round' = current_round + 1
                           /\ IF LoopCondition(current_round + 1, r.choices_made)
                              THEN BeginRound(current_round + 1)
                              ELSE /\ pc' = "idle"
                                   /\ UNCHANGED << round_number, round_strategies,
                                                   idx, tries >>
                      ELSE /\ pc' = "idle"
                           /\ UNCHANGED << current_round, round_number,
                                           round_strategies, idx, tries >>
    /\ UNCHANGED << cfg, op, strategies, call_log, request >>

\* games without communication
Next ==
    \/ Run
    \/ RunRound
    \/ \E response \in ChoiceResponses : Choose(response)
    \/ ChooseFails
    \/ Score

Spec == Init /\ [][Next]_vars

\* games with a communication phase when agents_communicate is true
NextComm ==
    \/ Run
    \/ RunRound
    \/ \E message \in MessageResponses : Communicate(message)
    \/ CommunicateFails
    \/ \E response \in ChoiceResponses : Choose(response)
    \/ ChooseFails
    \/ Score

SpecComm == InitComm /\ [][NextComm]_vars

\* ------------------------------------------------------------------------
\* Properties of the run loop
\* ------------------------------------------------------------------------
\* the last entry of choices_made is the stored sequence of a combination
\* whose key is in stop_conditions
LastChoiceStops ==
    /\ Len(choices_made) > 0
    /\ \E i \in 1..Len(cfg.payoff_matrix.combinations) :
          /\ cfg.payoff_matrix.combinations[i].strats = choices_made[Len(choices_made)]
          /\ cfg.payoff_matrix.combinations[i].key \in cfg.stop_conditions

\* a round is being played
RoundInProgress == pc \in {"communicate", "choose", "score"}

\* C1: in a game driven by run(), once the effective choice tuple recorded for
\* a round is the stored sequence of a combination in stop_conditions, no
\* further round is played: no round is in progress in any later state, also
\* when current_round is still within n_rounds.
C1_StopEndsRun ==
    (DrivenBy("run") /\ LastChoiceStops) => ~ RoundInProgress

\* C1 witness: run() has returned after a round whose tuple is a stop
\* combination although rounds were left to play
C1_Witness ==
    /\ CurrentCall = "run"
    /\ pc = "idle"
    /\ LastChoiceStops
    /\ played >= 1
    /\ current_round <= cfg.n_rounds

\* run() has been called and has returned
RunReturned == CurrentCall = "run" /\ pc = "idle"

\* C2 (state part): a game driven by run() plays at most n_rounds rounds, and
\* when run() has returned, current_round = n_rounds + 1 or the last entry of
\* choices_made matches a stop combination, and current_round = played + 1.
C2_ReturnState ==
    DrivenBy("run") =>
        /\ played <= cfg.n_rounds
        /\ RunReturned =>
              /\ current_round = cfg.n_rounds + 1 \/ LastChoiceStops
              /\ current_round = played + 1

\* the largest number of steps one round takes: a message of every agent,
\* Tries attempts of every agent, and the scoring
RoundWork == Len(cfg.agents) + Len(cfg.agents) * Tries + 1

\* the largest number of steps left in the round in progress
RoundRemaining ==
    CASE pc = "communicate" ->
            (Len(cfg.agents) - idx + 1) + Len(cfg.agents) * Tries + 1
      [] pc = "choose" -> (Len(cfg.agents) - idx) * Tries + tries + 1
      [] pc = "score" -> 1
      [] OTHER -> 0

\* the largest number of steps the game can still take: the calls the caller
\* has left, the rounds run() has left, and the round in progress
Variant ==
    (MaxCalls - Len(call_log)) * ((cfg.n_rounds + 1) * RoundWork + 1)
    + (IF CurrentCall = "run" /\ RoundInProgress
       THEN (cfg.n_rounds - current_round) * RoundWork ELSE 0)
    + RoundRemaining

\* C2: run() terminates when every decision request is answered: every step
\* of the game (an answered request, the scoring of a round) decreases a
\* non-negative bound on the steps that are left, so run() plays finitely many
\* rounds, and the state at its return is as C2_ReturnState says.
C2_RunTerminates ==
    /\ [] (C2_ReturnState /\ Variant >= 0)
    /\ [][Variant' < Variant]_vars

\* C2 witness: run() has returned by a stop condition before the last round
\* in one game and by exhaustion of the rounds in another; this one is the
\* exhaustion after more than one round
C2_Witness ==
    /\ RunReturned
    /\ current_round = cfg.n_rounds + 1
    /\ played >= 2
    /\ ~ LastChoiceStops

\* ------------------------------------------------------------------------
\* Properties of the choice phase
\* ------------------------------------------------------------------------
\* some display name of the matrix occurs in the text, whatever the case
NamesStrategy(text) ==
    \E i \in 1..Len(cfg.payoff_matrix.strategies) :
        Contains(Lower(cfg.payoff_matrix.strategies[i].name), Lower(text))

\* the last request was a choice request that gave no strategy
AttemptFailed ==
    request.phase = "choose" /\ (request.failed \/ ~ NamesStrategy(request.response))

\* the last request was a choice request whose response names a strategy
AttemptSucceeded ==
    request.phase = "choose" /\ ~ request.failed /\ NamesStrategy(request.response)

\* the agent of the last request is still being asked
StillRetrying ==
    pc = "choose" /\ cfg.agents[idx] = request.agent /\ round_number = request.round

\* C7: in the choice phase an agent gets at most 10 decision requests in one
\* round; an attempt that gives no known strategy, or whose call fails, uses
\* exactly one of the 10 (after the k-th such attempt 10 - k are left and the
\* same agent is asked again, the 10th ends in the error); an attempt whose
\* response names a strategy ends the retrying for that agent.
C7_BoundedRetry ==
    /\ request.phase = "choose" => request.count <= 10
    /\ (AttemptFailed /\ request.count < 10) =>
          StillRetrying /\ tries = 10 - request.count
    /\ (AttemptFailed /\ request.count >= 10) => pc = "error"
    /\ AttemptSucceeded => ~ StillRetrying

\* C7 witness: the 10th attempt of an agent names a strategy after nine
\* attempts that did not
C7_Witness ==
    /\ AttemptSucceeded
    /\ request.count = 10
    /\ pc # "error"
    /\ Len(strategies[request.agent]) > 0

\* all 10 attempts of the agent asked last gave no strategy
Exhausted == AttemptFailed /\ request.count = 10

\* C8: when all 10 attempts of an agent give no known strategy, the error
\* leaves the call (GameRound.run, run_round, run), and nothing happens after
\* it: no request to a later agent of the round, no scoring, no later round.
C8_ExhaustionAborts ==
    /\ [] (Exhausted => (pc = "error" /\ err \in {"ValueError", "ServiceError"}))
    /\ [][~ Exhausted]_vars

\* C8 witness: the retries of the first agent are exhausted in a game run by
\* run() with agents and rounds left
C8_Witness ==
    /\ Exhausted
    /\ pc = "error"
    /\ CurrentCall = "run"
    /\ idx < Len(cfg.agents)
    /\ current_round < cfg.n_rounds

\* C10: after every completed round each agent's strategies and scores have
\* grown by one entry, so that after r completed rounds both have length r.
C10_OneEntryPerRound ==
    pc = "idle" =>
        \A a \in Names(cfg.agents) :
            Len(strategies[a]) = played /\ Len(scores[a]) = played

\* ------------------------------------------------------------------------
\* Direct calls of the PayoffMatrix methods
\* ------------------------------------------------------------------------
\* longest list of strategy keys or display names passed to a method
MaxKeys == 3

\* most scores one agent collects through direct calls
MaxScores == 2

\* three agents to hand to attribute_scores
PoolSetup ==
    [agents |-> <<"agent1", "agent2", "agent3">>, team_mode |-> FALSE,
     teams |-> << >>]

MethodMatrices ==
    {PrisonerDilemma, IncompleteMatrix, ShortWeightsMatrix, LongWeightsMatrix,
     AsymmetricMatrix}

\* the lists of agents a caller supplies
AgentLists ==
    {<<"agent1", "agent2">>, <<"agent2", "agent1">>,
     <<"agent1", "agent2", "agent3">>}

\* the non-empty lists of at most MaxKeys elements of S
ListsOver(S) == UNION {[1..n -> S] : n \in 1..MaxKeys}

\* strategy keys as a caller passes them
KeyLists == ListsOver({Strategy1, Strategy2})

\* display names as a caller passes them: the two names of the matrix and a
\* strategy key in the place of a name
NameLists == ListsOver({Betray, Cooperate, Strategy1})

InitMatrix ==
    \E pm \in MethodMatrices : InitGame(Game(PoolSetup, 1, pm, {}, FALSE))

\* a call of PayoffMatrix.attribute_scores(agents, round_strategies)
AttributeScores(agents, keys) ==
    /\ \A a \in Names(cfg.agents) : Len(scores[a]) < MaxScores
    /\ LET r == attribute_scores(cfg.payoff_matrix, agents, scores, keys)
       IN  /\ scores' = r.scores
           /\ op' = [name |-> "attribute_scores", agents |-> agents,
                     input |-> keys, err |-> r.err,
                     value |-> << >>, before |-> scores]
    /\ UNCHANGED << cfg, current_round, choices_made, strategies, history, pc,
                    call_log, round_number, idx, tries, round_strategies,
                    request, played, err >>

\* a call of PayoffMatrix.get_weights_for_combination(strategy_list); the
\* method reads the matrix alone, the caller uses it before any scoring
GetWeightsForCombination(strategy_list) ==
    /\ \A a \in Names(cfg.agents) : Len(scores[a]) = 0
    /\ LET r == get_weights_for_combination(cfg.payoff_matrix, strategy_list)
       IN  op' = [name |-> "get_weights_for_combination", agents |-> << >>,
                  input |-> strategy_list, err |-> r.err,
                  value |-> r.value, before |-> scores]
    /\ UNCHANGED << cfg, current_round, choices_made, strategies, scores,
                    history, pc, call_log, round_number, idx, tries,
                    round_strategies, request, played, err >>

NextMatrix ==
    \/ \E agents \in AgentLists, keys \in KeyLists : AttributeScores(agents, keys)
    \/ \E names \in NameLists : GetWeightsForCombination(names)

SpecMatrix == InitMatrix /\ [][NextMatrix]_vars

\* ------------------------------------------------------------------------
\* The strategy extraction on arbitrary texts
\* ------------------------------------------------------------------------
\* longest response text
MaxText == 3

\* display names that contain one another and differ in case
ExtractNames == {<<"a">>, <<"a", "b">>, <<"B">>, <<"b", "a">>}

\* the strategies mappings: strategy1 and strategy2 under any two of the names
ExtractMatrices ==
    {[PrisonerDilemma EXCEPT
        !.strategies = << [key |-> Strategy1, name |-> n1],
                          [key |-> Strategy2, name |-> n2] >>] :
        n1 \in ExtractNames, n2 \in ExtractNames}

\* the response texts: every text of at most MaxText characters
Texts == UNION {[1..n -> {"a", "b", "B"}] : n \in 0..MaxText}

InitExtract ==
    \E pm \in ExtractMatrices : InitGame(Game(ClassicSetup, 1, pm, {}, FALSE))

\* the extraction of GameRound._execute_agent_strategy applied to a response
Extract(response) ==
    /\ op' = [name |-> "extract", agents |-> << >>, input |-> response,
              err |-> "none",
              value |-> FoundStrategy(cfg.payoff_matrix, response),
              before |-> << >>]
    /\ UNCHANGED << cfg, current_round, choices_made, strategies, scores,
                    history, pc, call_log, round_number, idx, tries,
                    round_strategies, request, played, err >>

NextExtract == \E response \in Texts : Extract(response)

SpecExtract == InitExtract /\ [][NextExtract]_vars

\* ------------------------------------------------------------------------
\* Properties of the PayoffMatrix methods
\* ------------------------------------------------------------------------
\* the last element of a non-empty list
Last(seq) == seq[Len(seq)]

\* the combinations whose stored key sequence is exactly keys
Storing(keys) ==
    {i \in 1..Len(cfg.payoff_matrix.combinations) :
        cfg.payoff_matrix.combinations[i].strats = keys}

\* the weight labels of the i-th combination
LabelsOf(i) == cfg.payoff_matrix.matrix[cfg.payoff_matrix.combinations[i].key]

\* the numeric weight of the k-th label of the i-th combination
WeightAt(i, k) == cfg.payoff_matrix.weights[LabelsOf(i)[k]]

\* attribute_scores was called and returned
Attributed == op.name = "attribute_scores" /\ op.err = "none"

\* the score lists are those of op.before with the weights of the i-th
\* combination appended position by position
PositionalAppend(i) ==
    /\ \A k \in 1..Len(op.agents) :
          k <= Len(LabelsOf(i)) =>
              scores[op.agents[k]] = Append(op.before[op.agents[k]], WeightAt(i, k))
    /\ \A a \in Names(cfg.agents) \ Names(op.agents) : scores[a] = op.before[a]

\* the keys of a two-player call, swapped
Swapped(keys) == << keys[2], keys[1] >>

\* a two-player call whose keys are stored in both orders, two labels each
TwoPlayerCall ==
    /\ Attributed
    /\ Len(op.agents) = 2
    /\ Len(op.input) = 2
    /\ \E i \in Storing(op.input) : Len(LabelsOf(i)) = 2
    /\ \E j \in Storing(Swapped(op.input)) : Len(LabelsOf(j)) = 2

\* the same call with the two keys swapped gives each agent what the other
\* agent received
SwapGivesSwappedPayoffs ==
    LET sw == attribute_scores(cfg.payoff_matrix, op.agents, op.before,
                               Swapped(op.input))
    IN  /\ sw.err = "none"
        /\ Last(sw.scores[op.agents[1]]) = Last(scores[op.agents[2]])
        /\ Last(sw.scores[op.agents[2]]) = Last(scores[op.agents[1]])

\* the two orders of the keys store swapped payoffs: the game is symmetric
\* for the two strategies of the call
SymmetricFor(keys) ==
    \A i \in Storing(keys), j \in Storing(Swapped(keys)) :
        WeightAt(j, 1) = WeightAt(i, 2) /\ WeightAt(j, 2) = WeightAt(i, 1)

C4_LookupError ==
    (/\ op.name = "attribute_scores"
     /\ \/ Storing(op.input) = {}
        \/ \E i \in Storing(op.input) : Len(LabelsOf(i)) # Len(op.agents))
    => (op.err # "none" /\ scores = op.before)

\* get_weights_for_combination was called
Looked == op.name = "get_weights_for_combination"

\* key is what the reverse mapping gives for name: the key of the last
\* strategy with that display name
ReverseMaps(name, key) ==
    \E i \in 1..Len(cfg.payoff_matrix.strategies) :
        /\ cfg.payoff_matrix.strategies[i].name = name
        /\ cfg.payoff_matrix.strategies[i].key = key
        /\ \A j \in (i + 1)..Len(cfg.payoff_matrix.strategies) :
              cfg.payoff_matrix.strategies[j].name # name

\* the i-th combination stores the keys of the names, one by one
StoresNames(i, names) ==
    /\ Len(cfg.payoff_matrix.combinations[i].strats) = Len(names)
    /\ \A k \in 1..Len(names) :
          ReverseMaps(names[k], cfg.payoff_matrix.combinations[i].strats[k])

\* the lookup of names on the Prisoner's Dilemma matrix returned value
PDGives(names, value) ==
    (Looked /\ cfg.payoff_matrix = PrisonerDilemma /\ op.input = names)
        => (op.err = "none" /\ op.value = value)

\* C5: get_weights_for_combination returns the numeric weights, in the order
\* of the combination, of the combination that stores the keys of the given
\* display names; on the Prisoner's Dilemma matrix (3,3), (5,0), (0,5), (1,1)
\* for Betray/Betray, Betray/Cooperate, Cooperate/Betray, Cooperate/Cooperate.
C5_WeightsByName ==
    /\ (Looked /\ op.err = "none") =>
          \E i \in 1..Len(cfg.payoff_matrix.combinations) :
              /\ StoresNames(i, op.input)
              /\ op.value = [j \in 1..Len(LabelsOf(i)) |-> WeightAt(i, j)]
    /\ PDGives(<<Betray, Betray>>, <<3, 3>>)
    /\ PDGives(<<Betray, Cooperate>>, <<5, 0>>)
    /\ PDGives(<<Cooperate, Betray>>, <<0, 5>>)
    /\ PDGives(<<Cooperate, Cooperate>>, <<1, 1>>)

\* C5 witness: Cooperate/Betray looked up on the Prisoner's Dilemma matrix
C5_Witness ==
    /\ Looked
    /\ cfg.payoff_matrix = PrisonerDilemma
    /\ op.input = <<Cooperate, Betray>>
    /\ op.value = <<0, 5>>

\* name is a display name of the matrix
IsDisplayName(name) ==
    \E i \in 1..Len(cfg.payoff_matrix.strategies) :
        cfg.payoff_matrix.strategies[i].name = name

\* C6: get_weights_for_combination fails when some name of the input is not
\* a display name (strategy keys in the place of names included), and when
\* every name is known but no combination stores their keys.
C6_InvalidNames ==
    Looked =>
        /\ (\E k \in 1..Len(op.input) : ~ IsDisplayName(op.input[k]))
              => op.err # "none"
        /\ (~ \E i \in 1..Len(cfg.payoff_matrix.combinations) :
                StoresNames(i, op.input))
              => op.err # "none"

\* C6 witness: the strategy keys of a stored combination are passed where
\* display names are expected, and the call fails
C6_Witness ==
    /\ Looked
    /\ op.input = <<Strategy1, Strategy1>>
    /\ Storing(op.input) # {}
    /\ op.err # "none"

\* ------------------------------------------------------------------------
\* Properties of the strategy extraction
\* ------------------------------------------------------------------------
\* the display name of the i-th strategy occurs in the text, whatever the case
Occurs(i, text) ==
    Contains(Lower(cfg.payoff_matrix.strategies[i].name), Lower(text))

\* C9: the accepted strategy is the first key, in the order of the strategies
\* mapping, whose display name occurs in the response as a case-insensitive
\* substring, wherever the names stand in the text; no strategy is accepted
\* when no display name occurs.
C9_KeyOrderWins ==
    op.name = "extract" =>
        /\ op.value = NoneText =>
              \A i \in 1..Len(cfg.payoff_matrix.strategies) : ~ Occurs(i, op.input)
        /\ op.value # NoneText =>
              \E i \in 1..Len(cfg.payoff_matrix.strategies) :
                  /\ cfg.payoff_matrix.strategies[i].key = op.value
                  /\ Occurs(i, op.input)
                  /\ \A j \in 1..(i - 1) : ~ Occurs(j, op.input)

\* C9 witness: both display names occur, the name of the second key first in
\* the text, and the first key is accepted
C9_Witness ==
    /\ op.name = "extract"
    /\ op.value = Strategy1
    /\ Occurs(1, op.input) /\ Occurs(2, op.input)
    /\ FirstOccurrence(Lower(cfg.payoff_matrix.strategies[2].name), Lower(op.input))
          < FirstOccurrence(Lower(cfg.payoff_matrix.strategies[1].name), Lower(op.input))

\* ------------------------------------------------------------------------
\* Properties of a round: what is recorded
\* ------------------------------------------------------------------------
\* the step in which run_round completes the round round_number
CompletesRound == pc = "score" /\ played' = played + 1

\* C11: after a completed classic-mode round the history record of the round
\* holds, for every agent, its last recorded strategy and its last recorded
\* score, and the recorded scores in agent order are what
\* get_weights_for_combination gives for the recorded strategies in that order.
C11_HistoryMatchesPayoffs ==
    [][(~ cfg.team_mode /\ CompletesRound) =>
          LET n == Len(cfg.agents)
              recorded == [i \in 1..n |-> history'[round_number][cfg.agents[i]]]
              looked == get_weights_for_combination(
                            cfg.payoff_matrix, [i \in 1..n |-> recorded[i].strategy])
          IN  /\ \A i \in 1..n :
                    /\ recorded[i].strategy = Last(strategies'[cfg.agents[i]])
                    /\ recorded[i].score = Last(scores'[cfg.agents[i]])
              /\ looked.err = "none"
              /\ looked.value = [i \in 1..n |-> recorded[i].score]]_vars

\* the step in which a choice request returns a response that names a strategy
ChoiceSucceeds ==
    /\ pc = "choose"
    /\ request' # request
    /\ ~ request'.failed
    /\ NamesStrategy(request'.response)

MaxUpdates == 3

\* the round numbers and the agent names of the updates
HistoryRounds == {1, 2}

HistoryAgents == {"a", "b"}

\* the data of an update: what the communication phase writes, what the end of
\* the round writes, and a record that shares a field with each of them
HistoryData ==
    {[message |-> <<"h", "i">>],
     [strategy |-> Cooperate, score |-> 1],
     [strategy |-> Betray, score |-> 0],
     [message |-> <<"y", "o">>, score |-> 5]}

InitHistory == InitGame(Game(ClassicSetup, 1, PrisonerDilemma, {}, FALSE))

\* a call of GameHistory.update_round(round_number, agent_name, data); the
\* calls made on the history are kept in call_log
UpdateRound(r, agent_name, data) ==
    /\ Len(call_log) < MaxUpdates
    /\ history' = update_round(history, r, agent_name, data)
    /\ call_log' = Append(call_log, [round |-> r, agent |-> agent_name, data |-> data])
    /\ UNCHANGED << cfg, current_round, choices_made, strategies, scores, pc,
                    round_number, idx, tries, round_strategies, request,
                    played, err, op >>

NextHistory ==
    \E r \in HistoryRounds, agent_name \in HistoryAgents, data \in HistoryData :
        UpdateRound(r, agent_name, data)

SpecHistory == InitHistory /\ [][NextHistory]_vars

\* the updates made so far for round r and agent a, by their place in call_log
UpdatesOf(r, a) ==
    {k \in 1..Len(call_log) : call_log[k].round = r /\ call_log[k].agent = a}

\* the fields the updates of round r and agent a have written
FieldsOf(r, a) == UNION {DOMAIN call_log[k].data : k \in UpdatesOf(r, a)}

\* the last update of round r and agent a that wrote the field f
LastWriter(r, a, f) ==
    CHOOSE k \in UpdatesOf(r, a) :
        /\ f \in DOMAIN call_log[k].data
        /\ \A j \in UpdatesOf(r, a) : f \in DOMAIN call_log[j].data => j <= k

\* C13: update_round merges. The history holds one record for a round/agent
\* pair that was updated, with every field any of its updates wrote, each
\* with the value of the last update that wrote it (so the message of the
\* communication phase survives the strategy/score write); what is stored for
\* a pair depends on the updates of that pair alone.
C13_UpdateMerges ==
    \A r \in HistoryRounds, a \in HistoryAgents :
        IF UpdatesOf(r, a) = {}
        THEN ~ (r \in DOMAIN history /\ a \in DOMAIN history[r])
        ELSE /\ r \in DOMAIN history
             /\ a \in DOMAIN history[r]
             /\ DOMAIN history[r][a] = FieldsOf(r, a)
             /\ \A f \in FieldsOf(r, a) :
                   history[r][a][f] = call_log[LastWriter(r, a, f)].data[f]

\* C13 witness: round 1 of agent a is updated with a message and then with a
\* strategy and a score, and the record holds the three fields
C13_Witness ==
    /\ Len(call_log) = 2
    /\ call_log[1] = [round |-> 1, agent |-> "a", data |-> [message |-> <<"h", "i">>]]
    /\ call_log[2] = [round |-> 1, agent |-> "a",
                      data |-> [strategy |-> Cooperate, score |-> 1]]
    /\ history[1]["a"].message = <<"h", "i">>
    /\ history[1]["a"].strategy = Cooperate
    /\ history[1]["a"].score = 1

\* ------------------------------------------------------------------------
\* Properties of the history of a game
\* ------------------------------------------------------------------------
\* round r is finalized: strategy and score are written for every agent
Finalized(r) ==
    /\ r \in DOMAIN history
    /\ \A a \in Names(cfg.agents) :
          /\ a \in DOMAIN history[r]
          /\ {"strategy", "score"} \subseteq DOMAIN history[r][a]

\* C14: once a round is finalized no step of the engine changes what is
\* stored under it, in games driven by run() and in games driven by repeated
\* calls of run_round().
C14_PastRoundsFrozen ==
    [][\A r \in DOMAIN history :
          Finalized(r) => (r \in DOMAIN history' /\ history'[r] = history[r])]_vars

\* ------------------------------------------------------------------------
\* Direct calls of FairGame._majority_vote
\* ------------------------------------------------------------------------
\* most members of a team
MaxMembers == 3

\* a third strategy key, for votes among three labels
Strategy3 == <<"s", "t", "r", "a", "t", "e", "g", "y", "3">>

\* the member choices handed to the vote: the non-empty lists of at most
\* MaxMembers strategy keys
MemberChoices ==
    UNION {[1..n -> {Strategy1, Strategy2, Strategy3}] : n \in 1..MaxMembers}

InitVote == InitGame(Game(TeamSetup, 1, PrisonerDilemma, {}, FALSE))

\* a call of FairGame._majority_vote(choices); op keeps the call, and under
\* before the input and the result of the call made before it
MajorityVote(choices) ==
    /\ op' = [name |-> "_majority_vote", agents |-> << >>, input |-> choices,
              err |-> "none", value |-> _majority_vote(choices),
              before |-> IF op.name = "_majority_vote"
                         THEN << [input |-> op.input, value |-> op.value] >>
                         ELSE << >>]
    /\ UNCHANGED << cfg, current_round, choices_made, strategies, scores,
                    history, pc, call_log, round_number, idx, tries,
                    round_strategies, request, played, err >>

NextVote == \E choices \in MemberChoices : MajorityVote(choices)

SpecVote == InitVote /\ [][NextVote]_vars

\* number of members that chose the label
Votes(choices, label) == Cardinality({k \in 1..Len(choices) : choices[k] = label})

\* place of the first member that chose the label
FirstVote(choices, label) ==
    CHOOSE k \in 1..Len(choices) :
        choices[k] = label /\ \A j \in 1..(k - 1) : choices[j] # label

\* C15: the team strategy is a label chosen by the most members; of several
\* such labels it is the one a member chose first in the list; the same list
\* gives the same label in a repeated call.
C15_MajorityVote ==
    op.name = "_majority_vote" =>
        /\ \E k \in 1..Len(op.input) : op.input[k] = op.value
        /\ \A k \in 1..Len(op.input) :
              /\ Votes(op.input, op.input[k]) <= Votes(op.input, op.value)
              /\ Votes(op.input, op.input[k]) = Votes(op.input, op.value)
                    => FirstVote(op.input, op.value) <= k
        /\ \A i \in 1..Len(op.before) :
              op.before[i].input = op.input => op.before[i].value = op.value

\* C15 witness: two members tie, the first member's label is returned, and
\* the call before it had the same input
C15_Witness ==
    /\ op.name = "_majority_vote"
    /\ op.input = << Strategy2, Strategy1 >>
    /\ op.value = Strategy2
    /\ Len(op.before) = 1
    /\ op.before[1].input = op.input

\* ------------------------------------------------------------------------
\* Properties of team mode
\* ------------------------------------------------------------------------
\* the choices of the members of the t-th team, in the order of its members
TeamChoices(t) ==
    [k \in 1..Len(cfg.teams[t].members) |-> round_strategies[cfg.teams[t].members[k]]]

\* label is the majority of the choices: no label has more votes, and every
\* label with as many votes is met later in the list
MajorityLabel(choices, label) ==
    /\ \E k \in 1..Len(choices) : choices[k] = label
    /\ \A k \in 1..Len(choices) :
          /\ Votes(choices, choices[k]) <= Votes(choices, label)
          /\ Votes(choices, choices[k]) = Votes(choices, label)
                => FirstVote(choices, label) <= k

\* the position in team_order of the team of agent a
TeamPosition(a) == CHOOSE t \in 1..Len(cfg.teams) : cfg.teams[t].id = cfg.team_id[a]

\* C16: a completed team-mode round appends to every agent the weight that
\* the combination matched by the per-team majority tuple carries at the
\* position of the agent's team, so that agents of one team get one score.
C16_UniformTeamPayoff ==
    [][(cfg.team_mode /\ CompletesRound) =>
          /\ \E i \in 1..Len(cfg.payoff_matrix.combinations) :
                /\ Len(cfg.payoff_matrix.combinations[i].strats) = Len(cfg.teams)
                /\ \A t \in 1..Len(cfg.teams) :
                      MajorityLabel(TeamChoices(t),
                                    cfg.payoff_matrix.combinations[i].strats[t])
                /\ \A a \in Names(cfg.agents) :
                      scores'[a] = Append(scores[a], WeightAt(i, TeamPosition(a)))
          /\ \A a, b \in Names(cfg.agents) :
                cfg.team_id[a] = cfg.team_id[b]
                    => Last(scores'[a]) = Last(scores'[b])]_vars

\* C16 witness: a team-mode round is completed in which the two members of
\* team A chose different strategies and got the same score
C16_Witness ==
    /\ cfg.team_mode
    /\ pc = "idle"
    /\ played = 1
    /\ cfg.team_id["agent1"] = cfg.team_id["agent2"]
    /\ Last(strategies["agent1"]) # Last(strategies["agent2"])
    /\ Len(scores["agent1"]) = 1 /\ Len(scores["agent2"]) = 1
    /\ Last(scores["agent1"]) = Last(scores["agent2"])

\* some agent of a team-mode game has no team, or a team that is not a key of
\* teams
SomeAgentWithoutTeam ==
    /\ cfg.team_mode
    /\ \E a \in Names(cfg.agents) :
          \/ cfg.team_id[a] = None
          \/ \A t \in 1..Len(cfg.teams) : cfg.teams[t].id # cfg.team_id[a]

\* C17: in team mode, when an agent has no team or an unknown one, scoring
\* fails with a configuration error and appends no score to any agent.
C17_NoScoreOnTeamError ==
    [][(pc = "score" /\ SomeAgentWithoutTeam) =>
          (pc' = "error" /\ err' = "ValueError" /\ scores' = scores)]_vars

\* C18: a missing team assignment is detected before the game runs: no
\* decision request is made to an agent of a game that has one.
C18_DetectedBeforeRun ==
    SomeAgentWithoutTeam => request = NoRequest

\* the ids of the teams, as team_order lists them
TeamIds == {cfg.teams[t].id : t \in 1..Len(cfg.teams)}

\* C19: in team mode the export of every completed round has a row for the
\* pseudo-agent "__teams__" that carries the team_strategies and team_payoffs
\* of the round, one entry per team.
C19_TeamsRowCarriesMaps ==
    (cfg.team_mode /\ pc = "idle") =>
        \A r \in DOMAIN history :
            Finalized(r) =>
                /\ "__teams__" \in DOMAIN describe(history)[r]
                /\ {"team_strategies", "team_payoffs"}
                      \subseteq DOMAIN describe(history)[r]["__teams__"]
                /\ DOMAIN describe(history)[r]["__teams__"].team_strategies = TeamIds
                /\ DOMAIN describe(history)[r]["__teams__"].team_payoffs = TeamIds

\* ------------------------------------------------------------------------
\* Properties of the scoring
\* ------------------------------------------------------------------------
\* no combination of the matrix stores the tuple
NoCombinationStores(tuple) ==
    \A i \in 1..Len(cfg.payoff_matrix.combinations) :
        cfg.payoff_matrix.combinations[i].strats # tuple

\* the error of a failed combination lookup has left the call
LookupFailed ==
    /\ pc = "error"
    /\ err = "ValueError"
    /\ Len(choices_made) > 0
    /\ NoCombinationStores(Last(choices_made))

\* C20: when no combination stores the effective tuple of a round, classic or
\* team mode, scoring raises: the round is not completed, no score and no
\* history record is written, the error leaves run_round and run, and nothing
\* happens after it.
C20_LookupFailureIsFatal ==
    /\ [][(pc = "score" /\ NoCombinationStores(EffectiveChoices)) =>
            /\ pc' = "error"
            /\ err' = "ValueError"
            /\ played' = played
            /\ scores' = scores
            /\ history' = history]_vars
    /\ [][~ LookupFailed]_vars

\* C20 witness: in a team-mode game run by run() the majority tuple of round 1
\* is stored by no combination, and the run has ended in the error with
\* rounds left to play
C20_Witness ==
    /\ LookupFailed
    /\ cfg.team_mode
    /\ CurrentCall = "run"
    /\ current_round = 1
    /\ current_round < cfg.n_rounds

\* ------------------------------------------------------------------------
\* Prompt templates
\*   A template is a sequence of tokens:
\*     text   a piece of literal text without braces and brackets
\*     field  "{name}"
\*     open   "{name}:[", the start of an optional section
\*     close  "]"
\*   A name is f"{base}{i}", i = 0 standing for the plain name base.
\*   A rendered prompt is a sequence of text tokens and of value tokens,
\*   one for every substituted value, tagged by the type of the value.
\* ------------------------------------------------------------------------
Key(base) == [base |-> base, i |-> 0]

Indexed(base, i) == [base |-> base, i |-> i]

Text(s) == [t |-> "text", v |-> s]

Field(name) == [t |-> "field", v |-> name]

Open(section) == [t |-> "open", v |-> Key(section)]

Close == [t |-> "close", v |-> "]"]

\* str(value) of a substituted value
Str(value) == [t |-> "str", v |-> value]

StrInt(value) == [t |-> "int", v |-> value]

StrChars(value) == [t |-> "chars", v |-> value]

StrDict(value) == [t |-> "dict", v |-> value]

\* ", ".join(names) of names that hold no comma
Joined(names) == [t |-> "joined", v |-> names]

\* the section markers as the prompt shows them when no section was found
ColonBracket == Text(":[")

Bracket == Text("]")

\* ------------------------------------------------------------------------
\* PromptCreator
\*   a creator is [prompt_template, values]: the template it rewrites and
\*   the placeholder-value dict it fills
\* ------------------------------------------------------------------------
NoPart == [found |-> FALSE, group0 |-> << >>, group1 |-> << >>]

\* PromptCreator._find_part: re.search(r"\{field\}:\s*\[(.*?)\]", DOTALL),
\* the leftmost start that a "]" follows, up to the first "]" after it
_find_part(prompt_template, field_name) ==
    LET n == Len(prompt_template)
        Closes(i) == {j \in (i + 1)..n : prompt_template[j] = Close}
        first == FirstIndex({i \in 1..n : /\ prompt_template[i] = Open(field_name)
                                          /\ Closes(i) # {}})
        last == FirstIndex(Closes(first))
    IN  IF first = 0 THEN NoPart
        ELSE [found |-> TRUE,
              group0 |-> SubSeq(prompt_template, first, last),
              group1 |-> SubSeq(prompt_template, first + 1, last - 1)]

\* str.replace(old, new): every occurrence of old, left to right
RECURSIVE StrReplace(_, _, _)
StrReplace(s, old, new) ==
    IF Len(s) < Len(old) \/ Len(old) = 0 THEN s
    ELSE IF SubSeq(s, 1, Len(old)) = old
         THEN new \o StrReplace(SubSeq(s, Len(old) + 1, Len(s)), old, new)
         ELSE << s[1] >> \o StrReplace(Tail(s), old, new)

\* PromptCreator._remove_part
_remove_part(prompt_template, part) ==
    IF part.found THEN StrReplace(prompt_template, part.group0, << >>)
    ELSE prompt_template

\* PromptCreator._replace_part (no caller passes a replacement)
_replace_part(prompt_template, part) ==
    IF part.found THEN StrReplace(prompt_template, part.group0, part.group1)
    ELSE prompt_template

\* pv_dict[name] = value
SetItem(values, name, value) == (name :> value) @@ values

\* a process_intro that keeps the section whatever the personality
process_intro_kept(creator, agent) ==
    LET intro == _find_part(creator.prompt_template, "intro")
    IN  IF ~intro.found THEN creator
        ELSE [prompt_template |-> _replace_part(creator.prompt_template, intro),
              values |-> SetItem(creator.values, Key("personality"),
                                 Str(agent.personality))]

\* PromptCreator.process_intro
process_intro(creator, agent) ==
    LET intro == _find_part(creator.prompt_template, "intro")
    IN  IF ~intro.found THEN creator
        ELSE IF agent.personality = "None"
             THEN [creator EXCEPT
                      !.prompt_template = _remove_part(creator.prompt_template, intro)]
             ELSE [prompt_template |-> _replace_part(creator.prompt_template, intro),
                   values |-> SetItem(creator.values, Key("personality"),
                                      Str(agent.personality))]

\* the loop of process_opponent_intro over enumerate(opponents, start=1)
RECURSIVE BindOpponents(_, _, _)
BindOpponents(values, opponents, i) ==
    IF i > Len(opponents) THEN values
    ELSE BindOpponents(
            SetItem(SetItem(SetItem(values,
                Indexed("opponent", i), Str(opponents[i].name)),
                Indexed("opponentPersonality", i), Str(opponents[i].personality)),
                Indexed("opponentPersonalityProbability", i),
                StrInt(opponents[i].opponent_personality_prob)),
            opponents, i + 1)

\* a process_opponent_intro that looks at the first opponent only
process_opponent_intro_first(creator, agent, opponents) ==
    LET opponent_intro == _find_part(creator.prompt_template, "opponentIntro")
        valid_opponents_exist ==
            /\ Len(opponents) > 0
            /\ opponents[1].opponent_personality_prob # 0
            /\ opponents[1].personality # "None"
    IN  IF ~opponent_intro.found THEN creator
        ELSE IF ~valid_opponents_exist
             THEN [creator EXCEPT
                      !.prompt_template = _remove_part(creator.prompt_template,
                                                       opponent_intro)]
             ELSE [prompt_template |-> _replace_part(creator.prompt_template,
                                                     opponent_intro),
                   values |-> BindOpponents(creator.values, opponents, 1)]

\* PromptCreator.process_opponent_intro
process_opponent_intro(creator, agent, opponents) ==
    LET opponent_intro == _find_part(creator.prompt_template, "opponentIntro")
        valid_opponents_exist ==
            \E k \in 1..Len(opponents) :
                /\ opponents[k].opponent_personality_prob # 0
                /\ opponents[k].personality # "None"
    IN  IF ~opponent_intro.found THEN creator
        ELSE IF ~valid_opponents_exist
             THEN [creator EXCEPT
                      !.prompt_template = _remove_part(creator.prompt_template,
                                                       opponent_intro)]
             ELSE [prompt_template |-> _replace_part(creator.prompt_template,
                                                     opponent_intro),
                   values |-> BindOpponents(creator.values, opponents, 1)]

\* a process_game_length that keeps the section whether the number of
\* rounds is known or not
process_game_length_kept(creator, game) ==
    LET game_length == _find_part(creator.prompt_template, "gameLength")
    IN  IF ~game_length.found THEN creator
        ELSE [prompt_template |-> _replace_part(creator.prompt_template,
                                                game_length),
              values |-> SetItem(creator.values, Key("nRounds"),
                                 StrInt(game.n_rounds))]

\* PromptCreator.process_game_length
process_game_length(creator, game) ==
    LET game_length == _find_part(creator.prompt_template, "gameLength")
    IN  IF ~game_length.found THEN creator
        ELSE IF game.n_rounds_known
             THEN [prompt_template |-> _replace_part(creator.prompt_template,
                                                     game_length),
                   values |-> SetItem(creator.values, Key("nRounds"),
                                      StrInt(game.n_rounds))]
             ELSE [creator EXCEPT
                      !.prompt_template = _remove_part(creator.prompt_template,
                                                       game_length)]

\* the members of the agent's team other than the agent, in the team's order
Teammates(game, agent) ==
    LET t == CHOOSE u \in 1..Len(game.teams) : game.teams[u].id = agent.team_id
        Other(name) == name # agent.name
    IN  SelectSeq(game.teams[t].members, Other)

\* PromptCreator.map_placeholders
map_placeholders(game, agent, opponents, current_round_, history_) ==
    LET pm == game.payoff_matrix
        \* list(self.payoff_matrix.weights.keys()): the weights of the
        \* matrices are written in the order w1, w2, w3, w4
        labels == <<"w1", "w2", "w3", "w4">>
        basic == (Key("currentPlayerName") :> Str(agent.name))
                 @@ (Key("currentRound") :> StrInt(current_round_))
                 @@ (Key("history") :> StrDict(history_))
                 @@ (Key("teamId") :> Str(agent.team_id))
        team == IF game.team_mode /\ agent.team_id # None
                THEN (Key("teammates") :> Joined(Teammates(game, agent)))
                ELSE [name \in {} |-> name]
        strats == [name \in {Indexed("strategy", i) : i \in 1..Len(pm.strategies)}
                      |-> StrChars(pm.strategies[name.i].name)]
        weights == [name \in {Indexed("weight", i) : i \in 1..Len(labels)}
                      |-> StrInt(pm.weights[labels[name.i]])]
        opps == [name \in {Indexed("opponent", i) : i \in 1..Len(opponents)}
                      |-> Str(opponents[name.i].name)]
    IN  opps @@ weights @@ strats @@ team @@ basic

\* a format that leaves out the fields it has no value for
format_lenient(prompt_template, values) ==
    LET Bound(tok) == tok.t \in {"text", "close"} \/ tok.v \in DOMAIN values
        kept == SelectSeq(prompt_template, Bound)
    IN  [err |-> "none", key |-> Key("none"),
         prompt |-> [k \in 1..Len(kept) |->
                        IF kept[k].t = "text" THEN kept[k]
                        ELSE IF kept[k].t = "close" THEN Bracket
                        ELSE values[kept[k].v]]]

\* the text str.format(**values) gives for a template whose fields all have a value
RECURSIVE Formatted(_, _)
Formatted(prompt_template, values) ==
    IF Len(prompt_template) = 0 THEN << >>
    ELSE LET tok == Head(prompt_template)
             out == CASE tok.t = "text" -> << tok >>
                      [] tok.t = "close" -> << Bracket >>
                      [] tok.t = "field" -> << values[tok.v] >>
                      [] tok.t = "open" -> << values[tok.v], ColonBracket >>
         IN  out \o Formatted(Tail(prompt_template), values)

\* self.prompt_template.format(**placeholder_value_dict): KeyError for the
\* first field that has no value; the start of a section that was not
\* found is the field of its name followed by ":["
format(prompt_template, values) ==
    LET Missing(tok) == tok.t \in {"field", "open"} /\ tok.v \notin DOMAIN values
        first == FirstIndex({ix \in 1..Len(prompt_template) :
                                Missing(prompt_template[ix])})
    IN  IF first # 0
        THEN [err |-> "KeyError", key |-> prompt_template[first].v, prompt |-> << >>]
        ELSE [err |-> "none", key |-> Key("none"),
              prompt |-> Formatted(prompt_template, values)]

\* a handling of the two phases that keeps the body of both sections
phase_actions_both(prompt_template, phase) ==
    LET communicate_match == _find_part(prompt_template, "communicate")
        choose_match == _find_part(prompt_template, "choose")
    IN  _replace_part(_replace_part(prompt_template, communicate_match),
                      choose_match)

\* the handling of the communicate and choose sections in fill_template:
\* both are looked for first, then the one of the phase is replaced by its
\* body and the other one removed
phase_actions(prompt_template, phase) ==
    LET communicate_match == _find_part(prompt_template, "communicate")
        choose_match == _find_part(prompt_template, "choose")
        replace == IF phase = "communicate" THEN communicate_match ELSE choose_match
        remove == IF phase = "communicate" THEN choose_match ELSE communicate_match
    IN  IF phase \in {"communicate", "choose"}
        THEN _remove_part(_replace_part(prompt_template, replace), remove)
        ELSE prompt_template

\* PromptCreator.process_optional_parts
process_optional_parts(creator, game, agent, opponents) ==
    process_game_length(
        process_opponent_intro(process_intro(creator, agent), agent, opponents),
        game)

\* PromptCreator.fill_template; the result keeps, with the prompt, the
\* template and the dict of the creator at the time of the format
fill_template(game, agent, opponents, current_round_, history_, phase) ==
    LET Result(out, final, values) ==
            [err |-> out.err, key |-> out.key, prompt |-> out.prompt,
             prompt_template |-> final, values |-> values]
        Format(final, values) == Result(format(final, values), final, values)
        Phase(processed) ==
            Format(phase_actions(processed.prompt_template, phase), processed.values)
    IN  Phase(process_optional_parts(
                [prompt_template |-> game.prompt_template,
                 values |-> map_placeholders(game, agent, opponents,
                                             current_round_, history_)],
                game, agent, opponents))

\* the Agent object of a game
AgentOf(game, name) ==
    [name |-> name, personality |-> game.personality[name],
     opponent_personality_prob |-> game.opponent_personality_prob[name],
     team_id |-> game.team_id[name]]

\* GameRound._get_opponents
_get_opponents(game, agent) ==
    LET all == [k \in 1..Len(game.agents) |-> AgentOf(game, game.agents[k])]
        NotAgent(a) == a.name # agent.name
        OtherTeam(a) == a.team_id # agent.team_id
    IN  IF ~game.team_mode THEN SelectSeq(all, NotAgent)
        ELSE SelectSeq(all, OtherTeam)

\* a create_prompt whose creator is the game's: the template it rewrites is
\* the template of the game
create_prompt_shared(game, agent, round_number_, history_, phase) ==
    LET out == fill_template(game, agent, _get_opponents(game, agent),
                             round_number_, history_, phase)
    IN  [out |-> out, opponents |-> _get_opponents(game, agent),
         game |-> [game EXCEPT !.prompt_template = out.prompt_template]]

\* GameRound.create_prompt: a new PromptCreator takes the template of the
\* game; the game is as it was
create_prompt(game, agent, round_number_, history_, phase) ==
    [out |-> fill_template(game, agent, _get_opponents(game, agent),
                           round_number_, history_, phase),
     opponents |-> _get_opponents(game, agent),
     game |-> game]

\* ------------------------------------------------------------------------
\* Direct calls of GameRound.create_prompt
\*   (unit_tests/test_prompts.py builds a game and a round and asks for the
\*   prompt of an agent)
\* ------------------------------------------------------------------------
\* number of pieces a template is put together from
MaxSegments == 2

IntroSec ==
    << Open("intro"), Text("You are"), Field(Key("personality")), Close >>

OpponentIntroSec ==
    << Open("opponentIntro"), Field(Indexed("opponent", 1)),
       Text("has a probability of"),
       Field(Indexed("opponentPersonalityProbability", 1)),
       Field(Indexed("opponentPersonality", 1)), Close >>

GameLengthSec ==
    << Open("gameLength"), Text("rounds to decide:"), Field(Key("nRounds")), Close >>

\* the bodies of the two phases use fields that map_placeholders gives a
\* value in every game
CommunicateSec ==
    << Open("communicate"), Text("Send a message"),
       Field(Key("currentPlayerName")), Field(Indexed("opponent", 1)),
       Field(Key("teamId")), Close >>

ChooseSec ==
    << Open("choose"), Text("Choose"), Field(Indexed("strategy", 1)),
       Field(Indexed("weight", 1)), Field(Key("currentRound")),
       Field(Key("history")), Close >>

\* the start of a section that no "]" of its own follows
UnclosedIntro == << Open("intro"), Text("Hello") >>

Segments ==
    {IntroSec, OpponentIntroSec, GameLengthSec, CommunicateSec, ChooseSec,
     UnclosedIntro,
     << Field(Key("personality")) >>, << Field(Key("teammates")) >>,
     << Field(Key("nRounds")) >>, << Field(Indexed("opponentPersonality", 2)) >>}

RECURSIVE Flatten(_)
Flatten(pieces) ==
    IF Len(pieces) = 0 THEN << >> ELSE Head(pieces) \o Flatten(Tail(pieces))

Templates ==
    {Flatten(pieces) : pieces \in UNION {[1..n -> Segments] : n \in 0..MaxSegments}}

\* team mode with an agent that two teams list
OverlapSetup ==
    [agents |-> <<"agent1", "agent2", "agent3">>, team_mode |-> TRUE,
     teams |-> << [id |-> "A", members |-> <<"agent1", "agent2">>],
                  [id |-> "B", members |-> <<"agent2", "agent3">>] >>]

\* the agents of a game: Personality{i} and OpponentPersonalityProb{i} of
\* the configuration row
Casts ==
    {[setup |-> ClassicSetup,
      personality |-> [agent1 |-> "cooperative", agent2 |-> "cooperative"],
      prob |-> [agent1 |-> 80, agent2 |-> 80]],
     [setup |-> ClassicSetup,
      personality |-> [agent1 |-> "None", agent2 |-> "cooperative"],
      prob |-> [agent1 |-> 80, agent2 |-> 0]],
     [setup |-> TeamSetup,
      personality |-> [agent1 |-> "None", agent2 |-> "cooperative",
                       agent3 |-> "cooperative"],
      prob |-> [agent1 |-> 80, agent2 |-> 80, agent3 |-> 0]],
     [setup |-> TeamlessAgentSetup,
      personality |-> [agent1 |-> "cooperative", agent2 |-> "cooperative",
                       agent3 |-> "cooperative"],
      prob |-> [agent1 |-> 80, agent2 |-> 80, agent3 |-> 80]],
     [setup |-> OverlapSetup,
      personality |-> [agent1 |-> "cooperative", agent2 |-> "cooperative",
                       agent3 |-> "cooperative"],
      prob |-> [agent1 |-> 80, agent2 |-> 80, agent3 |-> 80]]}

\* a game with the fields the prompt reads
PromptGame(cast, known, template) ==
    [agents |-> cast.setup.agents, team_mode |-> cast.setup.team_mode,
     teams |-> cast.setup.teams,
     team_id |-> [a \in Names(cast.setup.agents) |-> TeamOf(cast.setup.teams, a)],
     n_rounds |-> MaxRounds, payoff_matrix |-> PrisonerDilemma,
     stop_conditions |-> {}, agents_communicate |-> TRUE,
     personality |-> cast.personality,
     opponent_personality_prob |-> cast.prob,
     n_rounds_known |-> known, prompt_template |-> template]

PromptGames ==
    {PromptGame(cast, known, template) :
        cast \in Casts, known \in BOOLEAN, template \in Templates}

InitPrompt ==
    \E c \in PromptGames :
        /\ cfg = c
        /\ current_round = 1
        /\ choices_made = << >>
        /\ strategies = [a \in Names(c.agents) |-> << >>]
        /\ scores = [a \in Names(c.agents) |-> << >>]
        /\ history = << >>
        /\ pc = "idle"
        /\ call_log = << >>
        /\ round_number = 1
        /\ idx = 0
        /\ tries = 0
        /\ round_strategies = << >>
        /\ request = NoRequest
        /\ played = 0
        /\ err = "none"
        /\ op = NoOp

\* a call of GameRound(game).create_prompt(agent, phase); op keeps the call
\* and its result, and under before the result of the call made before it
\* when that call was for the same agent and phase
CreatePrompt(agent_name, phase) ==
    \E made \in {create_prompt(cfg, AgentOf(cfg, agent_name), round_number,
                              history, phase)} :
        /\ cfg' = made.game
        /\ op' = [name |-> "create_prompt", agents |-> << agent_name >>,
                  input |-> [phase |-> phase,
                             prompt_template |-> cfg.prompt_template],
                  err |-> made.out.err,
                  value |-> [prompt |-> made.out.prompt, key |-> made.out.key,
                             prompt_template |-> made.out.prompt_template,
                             values |-> made.out.values,
                             opponents |-> made.opponents],
                  before |-> IF /\ op.name = "create_prompt"
                                /\ op.agents = << agent_name >>
                                /\ op.input.phase = phase
                             THEN << [err |-> op.err, prompt |-> op.value.prompt] >>
                             ELSE << >>]
        /\ UNCHANGED << current_round, choices_made, strategies, scores,
                        history, pc, call_log, round_number, idx, tries,
                        round_strategies, request, played, err >>

NextPrompt ==
    \E agent_name \in Names(cfg.agents), phase \in {"communicate", "choose"} :
        CreatePrompt(agent_name, phase)

SpecPrompt == InitPrompt /\ [][NextPrompt]_vars

\* ------------------------------------------------------------------------
\* Properties of the prompt
\* ------------------------------------------------------------------------
Rendering == op.name = "create_prompt"

\* the agent the prompt is for, its opponents, the template of the game
\* before the call
Acting == AgentOf(cfg, op.agents[1])

Source == op.input.prompt_template

\* the "]" that ends the section starting at i, 0 if there is none
SectionEnd(T, i) == FirstIndex({j \in (i + 1)..Len(T) : T[j] = Close})

IsSection(T, i) == T[i].t = "open" /\ SectionEnd(T, i) # 0

\* an opponent whose personality the agent is told
Told(opponent) ==
    opponent.opponent_personality_prob # 0 /\ opponent.personality # "None"

\* the sections that the state of the game and the phase take out
SectionRemoved(section) ==
    CASE section = "intro" -> Acting.personality = "None"
      [] section = "opponentIntro" ->
            ~ \E k \in 1..Len(op.value.opponents) : Told(op.value.opponents[k])
      [] section = "gameLength" -> ~cfg.n_rounds_known
      [] section = "communicate" -> op.input.phase # "communicate"
      [] section = "choose" -> op.input.phase # "choose"
      [] OTHER -> FALSE

InRemovedSection(T, k) ==
    \E i \in 1..k : /\ IsSection(T, i)
                    /\ k <= SectionEnd(T, i)
                    /\ SectionRemoved(T[i].v.base)

\* a "{name}" that does not start a section
IsPlaceholder(T, k) ==
    T[k].t = "field" \/ (T[k].t = "open" /\ ~IsSection(T, k))

Unbound(T, k) == T[k].v \notin DOMAIN op.value.values

\* a placeholder outside every removed section that has no value
Unresolved(T, k) ==
    IsPlaceholder(T, k) /\ ~InRemovedSection(T, k) /\ Unbound(T, k)

\* no section starts inside another one
Plain(T) ==
    \A i \in 1..Len(T) :
        IsSection(T, i) => \A k \in (i + 1)..SectionEnd(T, i) : T[k].t # "open"

\* the start or the end of a section
IsMarker(T, k) ==
    \/ IsSection(T, k)
    \/ \E i \in 1..(k - 1) : IsSection(T, i) /\ SectionEnd(T, i) = k

\* what is left of a plain template: the text outside the removed sections
\* without the markers of the sections that are kept, every placeholder
\* replaced by its value
Expected(T) ==
    LET Kept(k) == ~InRemovedSection(T, k) /\ ~IsMarker(T, k)
        places == SelectSeq([k \in 1..Len(T) |-> k], Kept)
        Shown(tok) == IF tok.t = "text" THEN tok
                      ELSE IF tok.t = "close" THEN Bracket
                      ELSE op.value.values[tok.v]
    IN  [n \in 1..Len(places) |-> Shown(T[places[n]])]

\* C21: for a template whose sections do not nest, a render fails whenever
\* a placeholder outside every removed section has no value in the mapping,
\* and a failure names such a placeholder, so that a placeholder that occurs
\* only inside removed sections causes none; the returned prompt holds every
\* token outside the removed sections, each placeholder as its value.  No
\* returned prompt, of any template, holds a placeholder.
C21_UnboundPlaceholderFails ==
    Rendering =>
        /\ Plain(Source) =>
              /\ (\E k \in 1..Len(Source) : Unresolved(Source, k))
                    => op.err = "KeyError"
              /\ op.err = "KeyError" =>
                    \E k \in 1..Len(Source) :
                        Unresolved(Source, k) /\ Source[k].v = op.value.key
              /\ op.err = "none" => op.value.prompt = Expected(Source)
        /\ op.err = "none" =>
              \A n \in 1..Len(op.value.prompt) :
                  op.value.prompt[n].t \notin {"field", "open"}

\* C21 witness: the agent's personality is "None", the intro section with
\* its {personality} was removed, and the {personality} after the section
\* made the render fail
C21_Witness ==
    /\ Rendering
    /\ Acting.personality = "None"
    /\ Source = IntroSec \o << Field(Key("personality")) >>
    /\ op.err = "KeyError"
    /\ op.value.key = Key("personality")

SectionAt(T, section) ==
    FirstIndex({i \in 1..Len(T) : IsSection(T, i) /\ T[i] = Open(section)})

\* the body of the section that starts at i
Body(T, i) == SubSeq(T, i + 1, SectionEnd(T, i) - 1)

\* a piece of the template as the prompt shows it; a placeholder without a
\* value stays as it is
Substituted(piece) ==
    [n \in 1..Len(piece) |->
        IF piece[n].t = "text" THEN piece[n]
        ELSE IF piece[n].t = "close" THEN Bracket
        ELSE IF piece[n].v \in DOMAIN op.value.values
             THEN op.value.values[piece[n].v]
             ELSE piece[n]]

\* the prompt shows the body of the section, its placeholders replaced
BodyShown(section) ==
    Contains(Substituted(Body(Source, SectionAt(Source, section))), op.value.prompt)

\* the prompt shows none of the literal text of the body of the section
BodyAbsent(section) ==
    LET body == Body(Source, SectionAt(Source, section))
    IN  \A k \in 1..Len(body) :
            body[k].t = "text" => ~Contains(<< body[k] >>, op.value.prompt)

\* a prompt was returned for a template that has the section and whose
\* sections do not nest
Returned(section) ==
    /\ Rendering
    /\ op.err = "none"
    /\ Plain(Source)
    /\ SectionAt(Source, section) # 0

\* the prompt shows no marker of a section
NoMarker ==
    \A n \in 1..Len(op.value.prompt) :
        op.value.prompt[n] \notin {Bracket, ColonBracket}

IsBound(name) == name \in DOMAIN op.value.values

\* C23: in a returned prompt the body of the intro section is there,
\* without its markers and with {personality} bound to the personality of
\* the agent, if and only if that personality is not "None"; otherwise
\* nothing of the section is there and {personality} has no value.
C23_IntroSection ==
    Returned("intro") =>
        /\ NoMarker
        /\ Acting.personality # "None" =>
              /\ IsBound(Key("personality"))
              /\ op.value.values[Key("personality")] = Str(Acting.personality)
              /\ BodyShown("intro")
        /\ Acting.personality = "None" =>
              /\ ~IsBound(Key("personality"))
              /\ BodyAbsent("intro")
        /\ BodyShown("intro") <=> Acting.personality # "None"

\* C23 witness: the agent has no personality and the prompt shows the
\* choose section that follows the intro section, and nothing of the intro
C23_Witness ==
    /\ Returned("intro")
    /\ Acting.personality = "None"
    /\ Source = IntroSec \o ChooseSec
    /\ op.input.phase = "choose"
    /\ op.value.prompt = Substituted(Body(ChooseSec, 1))

\* C24: in a returned prompt the body of the opponentIntro section is
\* there if and only if some opponent has a probability other than 0 and a
\* personality other than "None"; then opponent{i}, opponentPersonality{i}
\* and opponentPersonalityProbability{i} are bound for every opponent i,
\* told or not; otherwise nothing of the section is there.
C24_OpponentIntroSection ==
    Returned("opponentIntro") =>
        LET opponents == op.value.opponents
            told == \E k \in 1..Len(opponents) : Told(opponents[k])
        IN  /\ NoMarker
            /\ told =>
                  /\ BodyShown("opponentIntro")
                  /\ \A i \in 1..Len(opponents) :
                        /\ IsBound(Indexed("opponent", i))
                        /\ IsBound(Indexed("opponentPersonality", i))
                        /\ IsBound(Indexed("opponentPersonalityProbability", i))
                        /\ op.value.values[Indexed("opponent", i)]
                              = Str(opponents[i].name)
                        /\ op.value.values[Indexed("opponentPersonality", i)]
                              = Str(opponents[i].personality)
                        /\ op.value.values[Indexed("opponentPersonalityProbability", i)]
                              = StrInt(opponents[i].opponent_personality_prob)
            /\ ~told =>
                  /\ BodyAbsent("opponentIntro")
                  /\ \A i \in 1..Len(opponents) :
                        ~IsBound(Indexed("opponentPersonality", i))
            /\ BodyShown("opponentIntro") <=> told

\* C24 witness: of two opponents the first has no personality and the
\* second is told; the section is kept and shows "None" as the personality
\* of the first
C24_Witness ==
    /\ Returned("opponentIntro")
    /\ Len(op.value.opponents) = 2
    /\ op.value.opponents[1].personality = "None"
    /\ Told(op.value.opponents[2])
    /\ Source = OpponentIntroSec
    /\ op.value.prompt = << Str(op.value.opponents[1].name),
                           Text("has a probability of"), StrInt(80), Str("None") >>

\* C25: in a returned prompt the body of the gameLength section is there,
\* with {nRounds} bound to n_rounds, if and only if n_rounds_known is
\* true; otherwise nothing of the section is there and {nRounds} has no
\* value.
C25_GameLengthSection ==
    Returned("gameLength") =>
        /\ NoMarker
        /\ cfg.n_rounds_known =>
              /\ IsBound(Key("nRounds"))
              /\ op.value.values[Key("nRounds")] = StrInt(cfg.n_rounds)
              /\ BodyShown("gameLength")
        /\ ~cfg.n_rounds_known =>
              /\ ~IsBound(Key("nRounds"))
              /\ BodyAbsent("gameLength")
        /\ BodyShown("gameLength") <=> cfg.n_rounds_known

\* C25 witness: the number of rounds is not known and the prompt shows the
\* choose section only
C25_Witness ==
    /\ Returned("gameLength")
    /\ ~cfg.n_rounds_known
    /\ Source = GameLengthSec \o ChooseSec
    /\ op.input.phase = "choose"
    /\ op.value.prompt = Substituted(Body(ChooseSec, 1))

\* C26: a returned prompt of the communicate phase shows the body of the
\* communicate section and nothing of the choose section; a returned prompt
\* of the choose phase shows the body of the choose section and nothing of
\* the communicate section.
C26_PhasesExclusive ==
    (Rendering /\ op.err = "none" /\ Plain(Source)) =>
        LET Has(section) == SectionAt(Source, section) # 0
            mine == op.input.phase
            other == IF mine = "communicate" THEN "choose" ELSE "communicate"
        IN  /\ Has(mine) => BodyShown(mine)
            /\ Has(other) => BodyAbsent(other)
            /\ NoMarker

\* C26 witness: the template has both sections and the prompt of the
\* communicate phase is the body of the communicate section
C26_Witness ==
    /\ Rendering
    /\ op.err = "none"
    /\ Source = CommunicateSec \o ChooseSec
    /\ op.input.phase = "communicate"
    /\ op.value.prompt = Substituted(Body(CommunicateSec, 1))

\* the names of the opponents handed to the creator
OpponentNames ==
    {op.value.opponents[k].name : k \in 1..Len(op.value.opponents)}

\* the names the prompt lists under {teammates}
TeammateNames ==
    LET listed == op.value.values[Key("teammates")].v
    IN  {listed[k] : k \in 1..Len(listed)}

\* C27: in classic mode the opponents of the agent are all the other
\* agents; in team mode they are the agents whose team_id is not the
\* agent's; the agent is never its own opponent; {teammates} is bound in
\* team mode for an agent that has a team, to the other members of that
\* team, and no teammate is listed as an opponent.
C27_OpponentsAndTeammates ==
    Rendering =>
        /\ Len(op.value.opponents) = Cardinality(OpponentNames)
        /\ ~cfg.team_mode =>
              OpponentNames = Names(cfg.agents) \ {Acting.name}
        /\ cfg.team_mode =>
              OpponentNames =
                  {a \in Names(cfg.agents) : cfg.team_id[a] # Acting.team_id}
        /\ Acting.name \notin OpponentNames
        /\ IsBound(Key("teammates")) <=> (cfg.team_mode /\ Acting.team_id # None)
        /\ IsBound(Key("teammates")) =>
              /\ \E t \in 1..Len(cfg.teams) :
                    /\ cfg.teams[t].id = Acting.team_id
                    /\ TeammateNames = Names(cfg.teams[t].members) \ {Acting.name}
              /\ TeammateNames \cap OpponentNames = {}

\* ------------------------------------------------------------------------
\* Two games built from the same configuration
\* ------------------------------------------------------------------------
\* the games FairGameFactory.create_games builds from one configuration
Instances == {1, 2}

\* the Agent objects game g holds, when one dict of agents is handed to every
\* game
create_agents_once(g, names) == [a \in names |-> << 1, a >>]

\* FairGameFactory.create_agents, called once per game: every call constructs
\* new Agent objects; an object is named by the call that made it
create_agents(g, names) == [a \in names |-> << g, a >>]

\* the "__teams__" record of FairGame.run_round for the game c
team_record(c, tuple) ==
    LET ids == {c.teams[t].id : t \in 1..Len(c.teams)}
        labels == c.payoff_matrix.matrix[
                      _find_combination_key(c.payoff_matrix, tuple)]
    IN  [team_strategies |-> [tid \in ids |-> tuple[TeamIndex(c.teams, tid)]],
         team_payoffs |->
            [tid \in ids |->
                c.payoff_matrix.weights[labels[TeamIndex(c.teams, tid)]]]]

\* GameRound.run without communication: the agents choose in order; a
\* response stands for what the agent answers at every attempt, so an agent
\* whose response names no strategy exhausts the retries and ends the round
choose_phase(c, st, responses) ==
    LET pm == c.payoff_matrix
        bad == FirstIndex({i \in 1..Len(c.agents) :
                   FoundStrategy(pm, responses[c.agents[i]]) = NoneText})
        n == IF bad = 0 THEN Len(c.agents) ELSE bad - 1
        chosen == {c.agents[i] : i \in 1..n}
    IN  [err |-> IF bad = 0 THEN "none" ELSE "ValueError",
         strategies |->
            [a \in DOMAIN st |->
                IF a \in chosen
                THEN Append(st[a],
                            StrategyName(pm, FoundStrategy(pm, responses[a])))
                ELSE st[a]],
         round_strategies |->
            [a \in chosen |-> FoundStrategy(pm, responses[a])]]

\* FairGame.run_round of a game whose fields are game_ and whose agents hold
\* the lists st and sc
run_round(c, game_, st, sc, responses) ==
    LET pm == c.payoff_matrix
        Scored(chose, tuple, scored) ==
            LET withTeams == IF c.team_mode
                             THEN update_round(game_.history, game_.current_round,
                                      "__teams__", team_record(c, tuple))
                             ELSE game_.history
                final == _update_round_history(withTeams, game_.current_round,
                             c.agents, chose.strategies, scored.scores)
            IN  [current_round |-> game_.current_round,
                 choices_made |-> Append(game_.choices_made, tuple),
                 history |-> IF scored.err # "none" THEN game_.history
                             ELSE final.rounds,
                 err |-> IF scored.err # "none" THEN scored.err ELSE final.err,
                 strategies |-> chose.strategies,
                 scores |-> scored.scores]
        Effective(chose, tuple) ==
            Scored(chose, tuple,
                   IF c.team_mode
                   THEN _assign_team_scores(pm, c.teams, c.agents, c.team_id,
                                            sc, tuple)
                   ELSE attribute_scores(pm, c.agents, sc, tuple))
        Chose(chose) ==
            IF chose.err # "none"
            THEN [current_round |-> game_.current_round,
                  choices_made |-> game_.choices_made,
                  history |-> game_.history,
                  err |-> chose.err,
                  strategies |-> chose.strategies,
                  scores |-> sc]
            ELSE Effective(chose,
                    IF c.team_mode
                    THEN TeamTuple(c.teams, chose.round_strategies)
                    ELSE [i \in 1..Len(c.agents) |->
                             chose.round_strategies[c.agents[i]]])
    IN  Chose(choose_phase(c, st, responses))

\* one pass of the loop of FairGame.run: run_round, then the increment
run_pass(c, game_, st, sc, responses) ==
    LET Counted(r) ==
            IF r.err # "none" THEN r
            ELSE [r EXCEPT !.current_round = r.current_round + 1]
    IN  Counted(run_round(c, game_, st, sc, responses))

\* FairGame.__init__ and Agent.__init__: the fields of a new game and the
\* lists of its new agents
NewGame(c) ==
    [current_round |-> 1, choices_made |-> << >>, history |-> << >>,
     err |-> "none",
     strategies |-> [a \in Names(c.agents) |-> << >>],
     scores |-> [a \in Names(c.agents) |-> << >>]]

\* FairGame.run of a game that nothing else runs beside: the passes made for
\* the given responses, one element per round
RECURSIVE run_alone(_, _)
run_alone(c, inputs) ==
    IF Len(inputs) = 0 THEN NewGame(c)
    ELSE LET Pass(before) ==
                 run_pass(c, before, before.strategies, before.scores,
                          inputs[Len(inputs)])
         IN  Pass(run_alone(c, SubSeq(inputs, 1, Len(inputs) - 1)))

\* the configurations two games are built from
TwoGameConfigs ==
    {Game(ClassicSetup, n, pm, stop, FALSE) :
        n \in 1..MaxRounds, pm \in {PrisonerDilemma, IncompleteMatrix},
        stop \in StopSets}
    \cup {Game(TeamSetup, 1, PrisonerDilemma, stop, FALSE) : stop \in StopSets}

\* the Agent objects of the games
Objects(c) == Instances \X Names(c.agents)

\* FairGameFactory.create_games for a configuration that yields two games:
\* per game, create_agents and FairGame.__init__
InitTwoGames ==
    /\ cfg \in TwoGameConfigs
    /\ op = [name |-> "create_games",
             agents |-> [g \in Instances |->
                            create_agents(g, Names(cfg.agents))],
             input |-> [g \in Instances |-> << >>],
             err |-> "none", value |-> << >>, before |-> << >>]
    /\ current_round = [g \in Instances |-> 1]
    /\ choices_made = [g \in Instances |-> << >>]
    /\ history = [g \in Instances |-> << >>]
    /\ err = [g \in Instances |-> "none"]
    /\ played = [g \in Instances |-> 0]
    /\ strategies = [o \in Objects(cfg) |-> << >>]
    /\ scores = [o \in Objects(cfg) |-> << >>]
    /\ pc = "idle"
    /\ call_log = << >>
    /\ round_number = 0
    /\ idx = 0
    /\ tries = 0
    /\ round_strategies = << >>
    /\ request = NoRequest

\* the fields of game g
Fields(g) ==
    [current_round |-> current_round[g], choices_made |-> choices_made[g],
     history |-> history[g], err |-> err[g]]

\* the lists of the agents game g holds, by agent name
Held(lists, g) == [a \in Names(cfg.agents) |-> lists[op.agents[g][a]]]

\* the lists of all Agent objects after game g wrote its agents' lists
Written(lists, g, new) ==
    [o \in DOMAIN lists |->
        IF \E a \in Names(cfg.agents) : op.agents[g][a] = o
        THEN new[CHOOSE a \in Names(cfg.agents) : op.agents[g][a] = o]
        ELSE lists[o]]

\* game g makes one pass of the loop of FairGame.run while the other game is
\* between two rounds
RunPass(g, responses) ==
    /\ err[g] = "none"
    /\ LoopCondition(current_round[g], choices_made[g])
    /\ \E r \in {run_pass(cfg, Fields(g), Held(strategies, g),
                          Held(scores, g), responses)} :
        /\ current_round' = [current_round EXCEPT ![g] = r.current_round]
        /\ choices_made' = [choices_made EXCEPT ![g] = r.choices_made]
        /\ history' = [history EXCEPT ![g] = r.history]
        /\ err' = [err EXCEPT ![g] = r.err]
        /\ played' = [played EXCEPT ![g] = IF r.err = "none" THEN @ + 1 ELSE @]
        /\ strategies' = Written(strategies, g, r.strategies)
        /\ scores' = Written(scores, g, r.scores)
    /\ op' = [op EXCEPT !.input[g] = Append(@, responses)]
    /\ UNCHANGED << cfg, pc, call_log, round_number, idx, tries,
                    round_strategies, request >>

NextTwoGames ==
    \E g \in Instances :
        \E responses \in [Names(cfg.agents) -> ChoiceResponses] :
            RunPass(g, responses)

SpecTwoGames == InitTwoGames /\ [][NextTwoGames]_vars

\* ------------------------------------------------------------------------
\* Properties of two games
\* ------------------------------------------------------------------------
\* what game g holds: its fields and the lists of its agents
StateOf(g) ==
    [current_round |-> current_round[g], choices_made |-> choices_made[g],
     history |-> history[g], err |-> err[g],
     strategies |-> Held(strategies, g), scores |-> Held(scores, g)]

Typed(type, value) == [t |-> type, v |-> value]

\* isinstance(value, expected_type): a bool is an int as well
IsInstance(value, expected_type) ==
    \/ value.t = expected_type
    \/ value.t = "bool" /\ expected_type = "int"

\* the dict without the key
Without(data, key) == [k \in (DOMAIN data) \ {key} |-> data[k]]

\* the dict after data[key] = value
With(data, key, value) ==
    [k \in (DOMAIN data) \cup {key} |-> IF k = key THEN value ELSE data[k]]

\* ConfigValidator.REQUIRED_KEYS
REQUIRED_KEYS ==
    << [key |-> "name", type |-> "str"],
       [key |-> "nRounds", type |-> "int"],
       [key |-> "nRoundsIsKnown", type |-> "bool"],
       [key |-> "payoffMatrix", type |-> "dict"],
       [key |-> "allAgentPermutations", type |-> "bool"],
       [key |-> "agents", type |-> "dict"],
       [key |-> "llm", type |-> "str"],
       [key |-> "languages", type |-> "list"],
       [key |-> "stopGameWhen", type |-> "list"],
       [key |-> "agentsCommunicate", type |-> "bool"] >>

\* PayoffMatrixTransformer.REQUIRED_KEYS_PAYOFF_MATRIX
REQUIRED_KEYS_PAYOFF_MATRIX ==
    << [key |-> "weights", type |-> "dict"],
       [key |-> "strategies", type |-> "dict"],
       [key |-> "combinations", type |-> "dict"],
       [key |-> "matrix", type |-> "dict"] >>

FILENAME_KEY == "templateFilename"

TEMPLATE_KEY == "promptTemplate"

\* ------------------------------------------------------------------------
\* PayoffMatrixTransformer and ConfigValidator
\* ------------------------------------------------------------------------
\* ConfigValidator._check_keys: missing keys are reported before wrong types
_check_keys(data, required_keys) ==
    LET missing_keys == {i \in 1..Len(required_keys) :
                            required_keys[i].key \notin DOMAIN data}
        type_errors == {i \in 1..Len(required_keys) :
                           /\ required_keys[i].key \in DOMAIN data
                           /\ ~ IsInstance(data[required_keys[i].key],
                                           required_keys[i].type)}
    IN  IF missing_keys # {} THEN "KeyError"
        ELSE IF type_errors # {} THEN "TypeError"
        ELSE "none"

\* PayoffMatrixTransformer.validate_payoff_matrix
validate_payoff_matrix(payoff_matrix) ==
    LET missing_keys == {i \in 1..Len(REQUIRED_KEYS_PAYOFF_MATRIX) :
                            REQUIRED_KEYS_PAYOFF_MATRIX[i].key
                                \notin DOMAIN payoff_matrix}
        type_errors == {i \in 1..Len(REQUIRED_KEYS_PAYOFF_MATRIX) :
                           /\ REQUIRED_KEYS_PAYOFF_MATRIX[i].key
                                  \in DOMAIN payoff_matrix
                           /\ ~ IsInstance(
                                  payoff_matrix[REQUIRED_KEYS_PAYOFF_MATRIX[i].key],
                                  REQUIRED_KEYS_PAYOFF_MATRIX[i].type)}
    IN  IF missing_keys # {} THEN "KeyError"
        ELSE IF type_errors # {} THEN "TypeError"
        ELSE "none"

\* PayoffMatrixTransformer.transform_payoff_input, for combinations whose
\* members are lists: the first element of every member becomes the strategy,
\* the second the weight label; config_data is replaced only when the loop
\* has finished
transform_payoff_input(config_data) ==
    LET original_matrix == config_data["payoffMatrix"].v
        Raise(e) == [err |-> e, config_data |-> config_data]
        Split(pairs_of) ==
            IF \E comb_key \in DOMAIN pairs_of :
                   \E k \in 1..Len(pairs_of[comb_key]) :
                       Len(pairs_of[comb_key][k]) < 2
            THEN Raise("IndexError")
            ELSE [err |-> "none",
                  config_data |->
                     With(config_data, "payoffMatrix",
                          Typed("dict",
                            [weights |-> original_matrix["weights"],
                             strategies |-> original_matrix["strategies"],
                             combinations |->
                                Typed("dict",
                                  [comb_key \in DOMAIN pairs_of |->
                                     [k \in 1..Len(pairs_of[comb_key]) |->
                                         pairs_of[comb_key][k][1]]]),
                             matrix |->
                                Typed("dict",
                                  [comb_key \in DOMAIN pairs_of |->
                                     [k \in 1..Len(pairs_of[comb_key]) |->
                                         pairs_of[comb_key][k][2]]])]))]
    IN  IF "weights" \notin DOMAIN original_matrix THEN Raise("KeyError")
        ELSE IF "strategies" \notin DOMAIN original_matrix THEN Raise("KeyError")
        ELSE IF "combinations" \notin DOMAIN original_matrix THEN Raise("KeyError")
        ELSE IF original_matrix["combinations"].t # "dict"
             THEN Raise("AttributeError")
        ELSE Split(original_matrix["combinations"].v)

\* a template check that is content with either key
_template_well_formed_either(data) ==
    (TEMPLATE_KEY \in DOMAIN data) \/ (FILENAME_KEY \in DOMAIN data)

\* ConfigValidator._template_well_formed
_template_well_formed(data) ==
    (TEMPLATE_KEY \in DOMAIN data) # (FILENAME_KEY \in DOMAIN data)

\* ConfigValidator._check_agents_configuration
_check_agents_configuration(agents_data) ==
    LET num_agents == Len(Get(agents_data, "names", << >>))
        personalities == Get(agents_data, "personalities", << >>)
        opponent_probs == Get(agents_data, "opponentPersonalityProb", << >>)
    IN  IF num_agents < 2 THEN FALSE
        ELSE IF \E k \in DOMAIN personalities : Len(personalities[k]) < 2
             THEN FALSE
        ELSE /\ \A k \in DOMAIN personalities :
                    Len(personalities[k]) = num_agents
             /\ IF Len(opponent_probs) # 0
                THEN Len(opponent_probs) = num_agents ELSE FALSE

\* ConfigValidator.validate_config_structure: the exception raised, the dict
\* of the caller after the call, and whether it was returned
validate_config_structure(config_data) ==
    LET Outcome(e, data) == [err |-> e, config_data |-> data]
        Rest(data) ==
            IF ~ _template_well_formed(data) THEN Outcome("KeyError", data)
            ELSE IF /\ ~ data["allAgentPermutations"].v
                    /\ ~ _check_agents_configuration(data["agents"].v)
                 THEN Outcome("KeyError", data)
            ELSE Outcome("none", data)
        Again(transformed) ==
            IF transformed.err # "none"
            THEN Outcome(transformed.err, config_data)
            ELSE IF validate_payoff_matrix(
                        transformed.config_data["payoffMatrix"].v) # "none"
                 THEN Outcome(validate_payoff_matrix(
                                transformed.config_data["payoffMatrix"].v),
                            transformed.config_data)
            ELSE Rest(transformed.config_data)
        Matrix(first) ==
            IF first = "KeyError" THEN Again(transform_payoff_input(config_data))
            ELSE IF first # "none" THEN Outcome(first, config_data)
            ELSE Rest(config_data)
        Keys(checked) ==
            IF checked # "none" THEN Outcome(checked, config_data)
            ELSE Matrix(validate_payoff_matrix(config_data["payoffMatrix"].v))
    IN  Keys(_check_keys(config_data, REQUIRED_KEYS))

\* ------------------------------------------------------------------------
\* Configurations handed to the validation
\* ------------------------------------------------------------------------
\* the strategies of the Prisoner's Dilemma, per language
PDStrategiesByLanguage ==
    [en |-> [strategy1 |-> "Betray", strategy2 |-> "Cooperate"]]

\* the combinations of the Prisoner's Dilemma as lists of strategy keys
PDStrategyLists ==
    [combination1 |-> <<"strategy1", "strategy1">>,
     combination2 |-> <<"strategy1", "strategy2">>,
     combination3 |-> <<"strategy2", "strategy1">>,
     combination4 |-> <<"strategy2", "strategy2">>]

\* the combinations of the Prisoner's Dilemma as lists of (strategy, weight)
\* pairs
PDPairs ==
    [comb_key \in DOMAIN PDStrategyLists |->
        [k \in 1..2 |-> << PDStrategyLists[comb_key][k], PDLabels[comb_key][k] >>]]

\* a payoffMatrix with the four keys
FullMatrix(weights, strategies_, combinations, matrix) ==
    [weights |-> Typed("dict", weights),
     strategies |-> Typed("dict", strategies_),
     combinations |-> Typed("dict", combinations),
     matrix |-> Typed("dict", matrix)]

\* a payoffMatrix whose combinations hold pairs and that has no matrix
PairsMatrix(weights, pairs) ==
    [weights |-> Typed("dict", weights),
     strategies |-> Typed("dict", PDStrategiesByLanguage),
     combinations |-> Typed("dict", pairs)]

PDFull == FullMatrix(PDWeights, PDStrategiesByLanguage, PDStrategyLists, PDLabels)

\* the payoffMatrix values of the configurations: the Prisoner's Dilemma in
\* both forms, and variants of it
PayoffMatrixInputs ==
    { PDFull,
      PairsMatrix(PDWeights, PDPairs),
      \* combination3 has no entry in matrix
      FullMatrix(PDWeights, PDStrategiesByLanguage, PDStrategyLists,
                 Without(PDLabels, "combination3")),
      \* combination4 has one weight label for two strategies
      FullMatrix(PDWeights, PDStrategiesByLanguage, PDStrategyLists,
                 [PDLabels EXCEPT !.combination4 = <<"w4">>]),
      \* combination1 names a weight label that weights lacks
      FullMatrix(PDWeights, PDStrategiesByLanguage, PDStrategyLists,
                 [PDLabels EXCEPT !.combination1 = <<"w3", "w9">>]),
      \* combination4 names a strategy key that strategies lacks
      FullMatrix(PDWeights, PDStrategiesByLanguage,
                 [PDStrategyLists EXCEPT
                     !.combination4 = <<"strategy2", "strategy3">>],
                 PDLabels),
      \* strategies has no entry for the language of the configuration
      FullMatrix(PDWeights, [it |-> PDStrategiesByLanguage.en],
                 PDStrategyLists, PDLabels),
      \* pairs that name a weight label that weights lacks
      PairsMatrix(PDWeights,
                  [PDPairs EXCEPT !.combination1[2] = <<"strategy1", "w9">>]),
      \* a pair with no weight label
      PairsMatrix(PDWeights,
                  [PDPairs EXCEPT !.combination1[2] = << "strategy1" >>]),
      \* neither matrix nor weights
      Without(PairsMatrix(PDWeights, PDPairs), "weights"),
      \* weights is a list
      [PDFull EXCEPT !.weights = Typed("list", <<5, 0, 3, 1>>)],
      \* no matrix, and combinations is a list
      [PairsMatrix(PDWeights, PDPairs) EXCEPT
          !.combinations = Typed("list", << >>)] }

\* the agents values of the configurations
AgentsInputs ==
    { [names |-> <<"agent1", "agent2">>,
       personalities |-> [en |-> <<"cooperative", "selfish">>],
       opponentPersonalityProb |-> <<0, 0>>],
      [names |-> <<"agent1">>,
       personalities |-> [en |-> <<"cooperative", "selfish">>],
       opponentPersonalityProb |-> <<0, 0>>],
      [names |-> <<"agent1", "agent2">>,
       personalities |-> [en |-> <<"cooperative", "selfish">>]] }

\* a configuration with every required key
Configuration(payoff_matrix, agents, all_permutations) ==
    [name |-> Typed("str", "prisoner_dilemma"),
     nRounds |-> Typed("int", MaxRounds),
     nRoundsIsKnown |-> Typed("bool", TRUE),
     payoffMatrix |-> Typed("dict", payoff_matrix),
     allAgentPermutations |-> Typed("bool", all_permutations),
     agents |-> Typed("dict", agents),
     llm |-> Typed("str", "llm"),
     languages |-> Typed("list", <<"en">>),
     stopGameWhen |-> Typed("list", <<"combination1">>),
     agentsCommunicate |-> Typed("bool", FALSE)]

\* what is done to the required keys of a configuration
KeyInputs(data) ==
    { data,
      Without(data, "llm"),
      With(data, "nRounds", Typed("str", "2")),
      With(data, "nRounds", Typed("bool", TRUE)),
      Without(With(data, "nRounds", Typed("str", "2")), "name") }

\* the template keys of a configuration: none, either, both
TemplateInputs(data) ==
    { data,
      With(data, TEMPLATE_KEY, Typed("dict", [en |-> "template"])),
      With(data, FILENAME_KEY, Typed("str", "prisoner_dilemma")),
      With(With(data, TEMPLATE_KEY, Typed("dict", [en |-> "template"])),
           FILENAME_KEY, Typed("str", "prisoner_dilemma")) }

ConfigurationInputs ==
    UNION { UNION { TemplateInputs(keyed) :
                        keyed \in KeyInputs(Configuration(pm, agents, perm)) } :
                pm \in PayoffMatrixInputs, agents \in AgentsInputs,
                perm \in BOOLEAN }

\* ------------------------------------------------------------------------
\* FairGameFactory.create_and_run_games up to create_games
\* ------------------------------------------------------------------------
\* a configuration has been loaded
InitValidate ==
    /\ cfg \in ConfigurationInputs
    /\ pc = "loaded"
    /\ op = NoOp
    /\ err = "none"
    /\ current_round = 1
    /\ choices_made = << >>
    /\ strategies = << >>
    /\ scores = << >>
    /\ history = << >>
    /\ call_log = << >>
    /\ round_number = 0
    /\ idx = 0
    /\ tries = 0
    /\ round_strategies = << >>
    /\ request = NoRequest
    /\ played = 0

\* IoManager.process_and_validate_configuration, the first statement of
\* create_and_run_games: cfg is the dict of the caller, which the
\* transformation changes in place
ProcessAndValidateConfiguration ==
    /\ pc = "loaded"
    /\ \E result \in {validate_config_structure(cfg)} :
        /\ cfg' = result.config_data
        /\ err' = result.err
        /\ pc' = IF result.err = "none" THEN "validated" ELSE "rejected"
        /\ op' = [name |-> "process_and_validate_configuration",
                  agents |-> << >>, input |-> cfg, err |-> result.err,
                  value |-> result.config_data, before |-> << >>]
    /\ UNCHANGED << current_round, choices_made, strategies, scores, history,
                    call_log, round_number, idx, tries, round_strategies,
                    request, played >>

\* create_and_run_games enters create_games with the processed configuration:
\* the statement is reached only when the validation returned
CreateGames ==
    /\ pc = "validated"
    /\ pc' = "create_games"
    /\ call_log' = Append(call_log, "create_games")
    /\ UNCHANGED << cfg, op, err, current_round, choices_made, strategies,
                    scores, history, round_number, idx, tries,
                    round_strategies, request, played >>

NextValidate ==
    \/ ProcessAndValidateConfiguration
    \/ CreateGames

SpecValidate == InitValidate /\ [][NextValidate]_vars

\* ------------------------------------------------------------------------
\* Properties of the validation
\* ------------------------------------------------------------------------
\* the validation has been run on the configuration
Validated == op.name = "process_and_validate_configuration"

\* the configuration has exactly one of the two template keys
ExactlyOneTemplate(data) ==
    \/ TEMPLATE_KEY \in DOMAIN data /\ FILENAME_KEY \notin DOMAIN data
    \/ TEMPLATE_KEY \notin DOMAIN data /\ FILENAME_KEY \in DOMAIN data

\* the required keys and the payoff matrix of the configuration pass
PassesBeforeTemplate(data) ==
    /\ _check_keys(data, REQUIRED_KEYS) = "none"
    /\ \/ validate_payoff_matrix(data["payoffMatrix"].v) = "none"
       \/ /\ validate_payoff_matrix(data["payoffMatrix"].v) = "KeyError"
          /\ transform_payoff_input(data).err = "none"
          /\ validate_payoff_matrix(
                 transform_payoff_input(data).config_data["payoffMatrix"].v) = "none"

\* C29: the validation accepts a configuration only if it has exactly one of
\* promptTemplate and templateFilename; a configuration with neither or both
\* is rejected with an error (a KeyError when nothing else is wrong before
\* the template check), and create_games is not entered for it
C29_ExactlyOneTemplate ==
    /\ Validated /\ op.err = "none" => ExactlyOneTemplate(op.input)
    /\ Validated /\ ~ ExactlyOneTemplate(op.input) =>
          /\ op.err # "none"
          /\ pc = "rejected"
          /\ PassesBeforeTemplate(op.input) => op.err = "KeyError"
    /\ pc = "create_games" =>
          /\ Validated
          /\ op.err = "none"
          /\ ExactlyOneTemplate(op.input)
          /\ ExactlyOneTemplate(cfg)
    /\ ~ Validated => pc = "loaded"

\* a configuration with both keys and nothing else wrong has been rejected
\* with a KeyError
C29_Witness ==
    /\ Validated
    /\ TEMPLATE_KEY \in DOMAIN op.input
    /\ FILENAME_KEY \in DOMAIN op.input
    /\ PassesBeforeTemplate(op.input)
    /\ op.err = "KeyError"
    /\ pc = "rejected"

\* the payoff matrix of a configuration is consistent for the language and
\* the number of players
Consistent(payoff_matrix, language, players) ==
    LET weights == payoff_matrix["weights"].v
        by_language == payoff_matrix["strategies"].v
        combinations == payoff_matrix["combinations"].v
        matrix == payoff_matrix["matrix"].v
    IN  \A comb_key \in DOMAIN combinations :
            /\ comb_key \in DOMAIN matrix
            /\ Len(combinations[comb_key]) = players
            /\ Len(matrix[comb_key]) = players
            /\ \A k \in 1..Len(matrix[comb_key]) :
                   matrix[comb_key][k] \in DOMAIN weights
            /\ language \in DOMAIN by_language
            /\ \A k \in 1..Len(combinations[comb_key]) :
                   combinations[comb_key][k] \in DOMAIN by_language[language]

\* C30: the payoff matrix of every configuration that passes the validation,
\* as given or as transformed, is consistent: every combination key is a key
\* of matrix, its strategies and weight labels are as many as the players,
\* every weight label is in weights and every strategy key in
\* strategies[language]
C30_ValidMatrixConsistent ==
    Validated /\ op.err = "none" =>
        \A i \in 1..Len(op.value["languages"].v) :
            Consistent(op.value["payoffMatrix"].v, op.value["languages"].v[i],
                       Len(op.value["agents"].v["names"]))

\* ------------------------------------------------------------------------
\* Agent.get_info and FairGame.description
\* ------------------------------------------------------------------------
\* Agent.__init__: the attributes the constructor sets
Agent(name, llm_service, personality_, opponent_personality_prob_, team_id) ==
    [name |-> name, strategies |-> << >>, scores |-> << >>,
     llm_service |-> llm_service, personality |-> personality_,
     team_id |-> team_id,
     opponent_personality_prob |-> opponent_personality_prob_]

\* Agent.get_info: reading an attribute the object does not have raises
\* AttributeError
get_info(self) ==
    LET info == [k \in {"name", "llm_service", "personality",
                        "opponent_personality_probability"} |->
                    CASE k = "name" -> Str(self.name)
                      [] k = "llm_service" -> Str(self.llm_service)
                      [] k = "personality" -> Str(self.personality)
                      [] OTHER -> StrInt(self.opponent_personality_prob)]
        with_team == IF self.team_id # None
                     THEN With(info, "team_id", Str(self.team_id)) ELSE info
    IN  IF "role_index" \notin DOMAIN self
        THEN [err |-> "AttributeError", info |-> << >>]
        ELSE [err |-> "none",
              info |-> IF self.role_index # None
                       THEN With(with_team, "role_index", StrInt(self.role_index))
                       ELSE with_team]

\* FairGame.description: the agents entry calls get_info on every agent, and
\* the first exception leaves the property
description(game) ==
    LET infos == [a \in Names(game.agents) |-> get_info(game.objects[a])]
        failed == {i \in 1..Len(game.agents) : infos[game.agents[i]].err # "none"}
    IN  IF failed # {}
        THEN [err |-> infos[game.agents[FirstIndex(failed)]].err, value |-> << >>]
        ELSE [err |-> "none",
              value |-> [agents |-> [a \in Names(game.agents) |-> infos[a].info],
                         teams |-> game.teams,
                         n_rounds |-> game.n_rounds]]

\* the arguments the agents are constructed with
Personalities == {"cooperative", "None"}

Probabilities == {0, 80}

TeamIdsOrNone == {None, "A"}

\* the agents dicts of the games: none, one or two agents
AgentDicts ==
    { [agents |-> << >>, objects |-> << >>] }
    \cup { [agents |-> << "agent1" >>,
            objects |-> [a \in {"agent1"} |-> Agent(a, "llm", p, k, t)]] :
              p \in Personalities, k \in Probabilities, t \in TeamIdsOrNone }
    \cup { [agents |-> << "agent1", "agent2" >>,
            objects |-> [a \in {"agent1", "agent2"} |->
                            IF a = "agent1" THEN Agent(a, "llm", p, k, t)
                            ELSE Agent(a, "llm", q, k, u)]] :
              p \in Personalities, q \in Personalities, k \in Probabilities,
              t \in TeamIdsOrNone, u \in TeamIdsOrNone }

\* FairGame.__init__ for the agents dict d
DescribedGame(d) ==
    [agents |-> d.agents, objects |-> d.objects,
     teams |-> IF \E a \in Names(d.agents) : d.objects[a].team_id # None
               THEN << [id |-> "A",
                        members |-> SelectSeq(d.agents,
                            LAMBDA a : d.objects[a].team_id = "A")] >>
               ELSE << >>,
     n_rounds |-> MaxRounds]

InitDescribe ==
    /\ cfg \in {DescribedGame(d) : d \in AgentDicts}
    /\ op = NoOp
    /\ pc = "idle"
    /\ err = "none"
    /\ current_round = 1
    /\ choices_made = << >>
    /\ strategies = << >>
    /\ scores = << >>
    /\ history = << >>
    /\ call_log = << >>
    /\ round_number = 0
    /\ idx = 0
    /\ tries = 0
    /\ round_strategies = << >>
    /\ request = NoRequest
    /\ played = 0

\* a call of agent.get_info()
GetInfo(agent_name) ==
    /\ agent_name \in Names(cfg.agents)
    /\ \E r \in {get_info(cfg.objects[agent_name])} :
        op' = [name |-> "get_info", agents |-> << agent_name >>,
               input |-> << >>, err |-> r.err, value |-> r.info,
               before |-> << >>]
    /\ UNCHANGED << cfg, pc, err, current_round, choices_made, strategies,
                    scores, history, call_log, round_number, idx, tries,
                    round_strategies, request, played >>

\* a read of game.description
Description ==
    /\ \E r \in {description(cfg)} :
        op' = [name |-> "description", agents |-> cfg.agents,
               input |-> << >>, err |-> r.err, value |-> r.value,
               before |-> << >>]
    /\ UNCHANGED << cfg, pc, err, current_round, choices_made, strategies,
                    scores, history, call_log, round_number, idx, tries,
                    round_strategies, request, played >>

NextDescribe ==
    \/ \E agent_name \in {"agent1", "agent2"} : GetInfo(agent_name)
    \/ Description

SpecDescribe == InitDescribe /\ [][NextDescribe]_vars

\* C31: get_info returns the snapshot of the agent (name, llm_service,
\* personality, opponent-personality probability, and team_id exactly when one
\* is set), and description is produced without error
C31_InfoSnapshot ==
    /\ op.name = "get_info" =>
          LET self == cfg.objects[op.agents[1]]
          IN  /\ op.err = "none"
              /\ DOMAIN op.value =
                    {"name", "llm_service", "personality",
                     "opponent_personality_probability"}
                    \cup (IF self.team_id # None THEN {"team_id"} ELSE {})
              /\ op.value["name"] = Str(self.name)
              /\ op.value["llm_service"] = Str(self.llm_service)
              /\ op.value["personality"] = Str(self.personality)
              /\ op.value["opponent_personality_probability"] =
                    StrInt(self.opponent_personality_prob)
              /\ self.team_id # None => op.value["team_id"] = Str(self.team_id)
    /\ op.name = "description" => op.err = "none"

\* ------------------------------------------------------------------------
\* FairGameFactory.create_games
\* ------------------------------------------------------------------------
\* the parameters of FairGame.__init__ after self, in order; all but teams
\* have no default
FairGameParameters ==
    << "name", "language", "agents", "n_rounds", "n_rounds_known",
       "payoff_matrix_data", "prompt_template", "stop_conditions",
       "agents_communicate", "teams" >>

FairGameDefaults == {"teams"}

\* the keyword arguments of the constructor call in _create_single_game,
\* which follow three positional arguments
SingleGameKeywords ==
    {"teams", "n_rounds", "n_rounds_known", "payoff_matrix", "prompt_template",
     "stop_conditions", "allow_communication"}

\* Python's binding of the arguments of a call to the parameters: a keyword
\* that is no parameter, a parameter given twice or a parameter without
\* default left unbound raises TypeError
BindArguments(parameters, defaults, positional, keywords) ==
    LET by_position == {parameters[i] : i \in 1..positional}
        names == {parameters[i] : i \in 1..Len(parameters)}
    IN  IF positional > Len(parameters) THEN "TypeError"
        ELSE IF keywords \ names # {} THEN "TypeError"
        ELSE IF keywords \cap by_position # {} THEN "TypeError"
        ELSE IF names \ (by_position \cup keywords \cup defaults) # {}
             THEN "TypeError"
        ELSE "none"

\* FairGameFactory.build_prompt_template: the template of the configuration
\* for the language, else the file of the language; files are the languages
\* whose template file exists
build_prompt_template(config, lang, files) ==
    IF "promptTemplate" \in DOMAIN config /\ lang \in DOMAIN config["promptTemplate"]
    THEN "none"
    ELSE IF "templateFilename" \notin DOMAIN config THEN "KeyError"
    ELSE IF lang \notin files THEN "FileNotFoundError"
    ELSE "none"

\* list(itertools.product(list_, repeat=n)): the tuples in the order of the
\* list, the last position running fastest
RECURSIVE product(_, _)
product(list_, n) ==
    IF n = 0 THEN << << >> >>
    ELSE LET shorter == product(list_, n - 1)
         IN  [k \in 1..(Len(shorter) * Len(list_)) |->
                Append(shorter[((k - 1) \div Len(list_)) + 1],
                       list_[((k - 1) % Len(list_)) + 1])]

\* FairGameFactory.compute_all_game_configurations: one row per pair of a
\* personality tuple and a knowledge tuple
compute_all_game_configurations(lang, config_agents, llm_service) ==
    LET n_agents == Len(config_agents.names)
        personality_permutations ==
            product(config_agents.personalities[lang], n_agents)
        knowledge_permutations ==
            product(config_agents.opponentPersonalityProb, n_agents)
        per == Len(knowledge_permutations)
    IN  [k \in 1..(Len(personality_permutations) * per) |->
            [Agent |-> config_agents.names,
             Personality |-> personality_permutations[((k - 1) \div per) + 1],
             OpponentPersonalityProb |-> knowledge_permutations[((k - 1) % per) + 1],
             LLM |-> llm_service, Language |-> lang]]

\* FairGameFactory.compute_configuration: the one row of the configuration as
\* written, for lists that have an element per agent
compute_configuration(lang, config_agents, llm_service) ==
    LET n_agents == Len(config_agents.names)
    IN  << [Agent |-> config_agents.names,
            Personality |-> SubSeq(config_agents.personalities[lang], 1, n_agents),
            OpponentPersonalityProb |->
                SubSeq(config_agents.opponentPersonalityProb, 1, n_agents),
            LLM |-> llm_service, Language |-> lang] >>

\* FairGameFactory._generate_language_config_df
_generate_language_config_df(config, lang) ==
    IF config.allAgentPermutations
    THEN compute_all_game_configurations(lang, config.agents, config.llm)
    ELSE compute_configuration(lang, config.agents, config.llm)

\* the rows of all languages appended to df, in the order of the languages
RECURSIVE ConcatLanguages(_, _, _)
ConcatLanguages(df, config, k) ==
    IF k > Len(config.languages) THEN df
    ELSE ConcatLanguages(
             df \o _generate_language_config_df(config, config.languages[k]),
             config, k + 1)

\* FairGameFactory._create_single_game with the given keywords of the
\* constructor call: the template, the agents, then the constructor
_create_single_game(config, game_config_row, files, keywords) ==
    LET template == build_prompt_template(config, game_config_row.Language, files)
        bound == BindArguments(FairGameParameters, FairGameDefaults, 3, keywords)
    IN  IF template # "none" THEN [err |-> template, game |-> << >>]
        ELSE IF bound # "none" THEN [err |-> bound, game |-> << >>]
        ELSE [err |-> "none",
              game |-> [language |-> game_config_row.Language,
                        agents |-> game_config_row.Agent,
                        personalities |-> game_config_row.Personality,
                        probabilities |-> game_config_row.OpponentPersonalityProb]]

\* FairGameFactory.create_games on a factory whose fields are factory: the
\* rows are appended to config_all_langs_df, then a game is made of every
\* row of it; games is assigned only when every constructor call returned
create_games(factory, config, files) ==
    LET Made(df) ==
            LET made == [k \in 1..Len(df) |->
                            _create_single_game(config, df[k], files,
                                                SingleGameKeywords)]
                failed == {k \in 1..Len(df) : made[k].err # "none"}
            IN  IF failed # {}
                THEN [err |-> made[FirstIndex(failed)].err,
                      config_all_langs_df |-> df, games |-> factory.games]
                ELSE [err |-> "none", config_all_langs_df |-> df,
                      games |-> [k \in 1..Len(df) |-> made[k].game]]
    IN  Made(ConcatLanguages(factory.config_all_langs_df, config, 1))

\* ------------------------------------------------------------------------
\* Configurations handed to create_games
\* ------------------------------------------------------------------------
LanguageLists == { << >>, << "en" >>, << "en", "it" >> }

PersonalityLists == { << "cooperative" >>, << "cooperative", "selfish" >> }

ProbabilityLists == { << 0 >>, << 0, 80 >> }

FactoryNames == { << "agent1" >>, << "agent1", "agent2" >> }

\* the agents entry: with allAgentPermutations false only what
\* _check_agents_configuration accepts
FactoryAgents(perm) ==
    { a \in { [names |-> names,
               personalities |-> [l \in {"en", "it"} |-> personalities],
               opponentPersonalityProb |-> probabilities] :
                  names \in FactoryNames, personalities \in PersonalityLists,
                  probabilities \in ProbabilityLists } :
        perm \/ _check_agents_configuration(a) }

\* the template of the configuration and the template files there are
FactoryTemplates ==
    { [keys |-> [promptTemplate |-> [en |-> "template"]], files |-> {}],
      [keys |-> [promptTemplate |-> [en |-> "template", it |-> "template"]],
       files |-> {}],
      [keys |-> [templateFilename |-> "prisoner_dilemma"], files |-> {}],
      [keys |-> [templateFilename |-> "prisoner_dilemma"],
       files |-> {"en", "it"}] }

FactoryConfigs ==
    UNION { { [config |-> [k \in {"name", "languages", "allAgentPermutations",
                                  "agents", "llm"} \cup DOMAIN t.keys |->
                              CASE k = "name" -> "prisoner_dilemma"
                                [] k = "languages" -> languages
                                [] k = "allAgentPermutations" -> perm
                                [] k = "agents" -> a
                                [] k = "llm" -> "llm"
                                [] OTHER -> t.keys[k]],
               files |-> t.files] :
                 languages \in LanguageLists, a \in FactoryAgents(perm),
                 t \in FactoryTemplates } :
            perm \in BOOLEAN }

\* FairGameFactory.__init__
InitFactory ==
    /\ cfg \in FactoryConfigs
    /\ op = [name |-> "FairGameFactory", agents |-> << >>, input |-> << >>,
             err |-> "none",
             value |-> [config_all_langs_df |-> << >>, games |-> << >>],
             before |-> << >>]
    /\ pc = "idle"
    /\ err = "none"
    /\ current_round = 1
    /\ choices_made = << >>
    /\ strategies = << >>
    /\ scores = << >>
    /\ history = << >>
    /\ call_log = << >>
    /\ round_number = 0
    /\ idx = 0
    /\ tries = 0
    /\ round_strategies = << >>
    /\ request = NoRequest
    /\ played = 0

\* a call of factory.create_games(config)
FactoryCreateGames ==
    /\ Len(call_log) < MaxCalls
    /\ \E r \in {create_games(op.value, cfg.config, cfg.files)} :
        /\ op' = [name |-> "create_games", agents |-> << >>, input |-> << >>,
                  err |-> r.err,
                  value |-> [config_all_langs_df |-> r.config_all_langs_df,
                             games |-> r.games],
                  before |-> << op.value >>]
        /\ err' = r.err
    /\ call_log' = Append(call_log, "create_games")
    /\ UNCHANGED << cfg, pc, current_round, choices_made, strategies, scores,
                    history, round_number, idx, tries, round_strategies,
                    request, played >>

NextFactory == FactoryCreateGames

SpecFactory == InitFactory /\ [][NextFactory]_vars

\* ------------------------------------------------------------------------
\* Properties of the factory
\* ------------------------------------------------------------------------
\* the rows of the configuration for one language
RowsPerLanguage(config, lang) ==
    IF config.allAgentPermutations
    THEN (Len(config.agents.personalities[lang]) ^ Len(config.agents.names))
         * (Len(config.agents.opponentPersonalityProb) ^ Len(config.agents.names))
    ELSE 1

RECURSIVE RowsFrom(_, _)
RowsFrom(config, k) ==
    IF k > Len(config.languages) THEN 0
    ELSE RowsPerLanguage(config, config.languages[k]) + RowsFrom(config, k + 1)

\* create_games has been called once on a new factory
FirstCreateGames == op.name = "create_games" /\ Len(call_log) = 1

\* C32: create_games on a new factory returns one game per configuration
\* row: per language |personalities|^n * |opponentPersonalityProb|^n games
\* with allAgentPermutations, one without
C32_OneGamePerRow ==
    FirstCreateGames =>
        /\ op.err = "none"
        /\ Len(op.value.config_all_langs_df) = RowsFrom(cfg.config, 1)
        /\ Len(op.value.games) = Len(op.value.config_all_langs_df)

\* ------------------------------------------------------------------------
\* Properties of the stop condition and of the phases of a round
\* ------------------------------------------------------------------------
\* the stop test of the game in its present state
StopMet ==
    stop_condition_is_met(cfg.payoff_matrix, cfg.stop_conditions, choices_made)

\* C33: stop_condition_is_met looks at the last entry of choices_made only:
\* it is true iff there is a last entry and the combination that stores it is
\* in stop_conditions, false when choices_made is empty or no combination
\* stores the entry, the same whatever the earlier entries are, and so the
\* first call of run() on a new game begins a round
C33_StopLooksAtLast ==
    /\ StopMet = LastChoiceStops
    /\ Len(choices_made) = 0 => ~ StopMet
    /\ (Len(choices_made) > 0 /\ NoCombinationStores(choices_made[Len(choices_made)]))
          => ~ StopMet
    /\ Len(choices_made) > 0 =>
          StopMet = stop_condition_is_met(cfg.payoff_matrix, cfg.stop_conditions,
                                          << choices_made[Len(choices_made)] >>)
    /\ (CurrentCall = "run" /\ Len(call_log) = 1 /\ cfg.n_rounds >= 1) =>
          RoundInProgress \/ played >= 1 \/ pc = "error"

\* two rounds have been played by run_round; the tuple of the first is a stop
\* combination, the tuple of the second is not, and the test is false
C33_Witness ==
    /\ Len(choices_made) = 2
    /\ stop_condition_is_met(cfg.payoff_matrix, cfg.stop_conditions,
                             << choices_made[1] >>)
    /\ ~ LastChoiceStops
    /\ ~ StopMet
    /\ played = 2

\* the tuple is the stored sequence of a combination in stop_conditions
StopsOn(tuple) ==
    \E i \in 1..Len(cfg.payoff_matrix.combinations) :
        /\ cfg.payoff_matrix.combinations[i].strats = tuple
        /\ cfg.payoff_matrix.combinations[i].key \in cfg.stop_conditions

\* the choices of the agents in the last round they all chose in, in the
\* order of the agents
AgentChoices ==
    [i \in 1..Len(cfg.agents) |->
        NameToKey(cfg.payoff_matrix, Last(strategies[cfg.agents[i]]))]

\* C34: in team mode the tuple recorded for a round is the majority vote of
\* every team, in team_order, and run() goes on after the round iff rounds
\* are left and that tuple is not a stop combination, whatever the choices of
\* the single agents are
C34_TeamStop ==
    [][(pc = "score" /\ cfg.team_mode) =>
          /\ choices_made' =
                Append(choices_made, TeamTuple(cfg.teams, round_strategies))
          /\ (CurrentCall = "run" /\ pc' # "error") =>
                (RoundInProgress' <=>
                    /\ current_round < cfg.n_rounds
                    /\ ~ StopsOn(TeamTuple(cfg.teams, round_strategies)))]_vars

\* run() has returned with rounds left because the team tuple is a stop
\* combination, while the choices of the agents, in their order, are the
\* sequence of a combination that is none
C34_Witness ==
    /\ cfg.team_mode
    /\ RunReturned
    /\ played >= 1
    /\ current_round <= cfg.n_rounds
    /\ StopsOn(choices_made[Len(choices_made)])
    /\ AgentChoices # choices_made[Len(choices_made)]
    /\ ~ NoCombinationStores(AgentChoices)
    /\ ~ StopsOn(AgentChoices)

\* run() has gone on although the choices of the agents, in their order, are
\* a stop combination: the team tuple is none
C34_WitnessContinues ==
    /\ cfg.team_mode
    /\ CurrentCall = "run"
    /\ RoundInProgress
    /\ played = 1
    /\ ~ StopsOn(choices_made[Len(choices_made)])
    /\ StopsOn(AgentChoices)

\* the record of the agent in the round has the field
Recorded(rounds, r, a, field) ==
    /\ r \in DOMAIN rounds
    /\ a \in DOMAIN rounds[r]
    /\ field \in DOMAIN rounds[r][a]

\* a round begins in this step
RoundBegins ==
    /\ pc \in {"idle", "score"}
    /\ pc' \in {"communicate", "choose"}
    /\ round_number' = current_round'
    /\ idx' = 1
    /\ round_strategies' = << >>

\* C35: the phases of a round follow each other without a way back. The
\* communication phase is entered only at the beginning of a round of a game
\* with agents_communicate; the choice phase is entered from it only when the
\* message of every agent has been requested and recorded, and at the
\* beginning of a round otherwise; scores change only in the scoring step,
\* when every agent has chosen; strategy and score are written to the history
\* only in that step, with the scores it assigns
C35_PhasesInOrder ==
    [][/\ pc' = "communicate" => cfg.agents_communicate
       /\ (pc' = "communicate" /\ pc # "communicate") => RoundBegins
       /\ pc = "communicate" =>
             /\ pc' \in {"communicate", "choose", "error"}
             /\ request'.phase = "communicate"
             /\ pc' # "error" =>
                   /\ Recorded(history', round_number, cfg.agents[idx], "message")
                   /\ history'[round_number][cfg.agents[idx]]["message"]
                         = request'.response
                   /\ pc' = "communicate" => idx' = idx + 1
                   /\ pc' = "choose" =>
                         /\ idx = Len(cfg.agents)
                         /\ idx' = 1
                         /\ \A a \in Names(cfg.agents) :
                               Recorded(history', round_number, a, "message")
       /\ (pc' = "choose" /\ pc # "choose") =>
             IF cfg.agents_communicate THEN pc = "communicate" ELSE RoundBegins
       /\ pc = "choose" =>
             /\ pc' \in {"choose", "score", "error"}
             /\ request'.phase = "choose"
             /\ history' = history
       /\ pc' = "score" =>
             /\ pc = "choose"
             /\ DOMAIN round_strategies' = Names(cfg.agents)
       /\ scores' # scores => pc = "score"
       /\ pc = "score" =>
             /\ request' = request
             /\ pc' \in {"idle", "error"} \/ RoundBegins
       /\ \A a \in Names(cfg.agents) :
             (\/ (Recorded(history', round_number, a, "strategy")
                    /\ ~ Recorded(history, round_number, a, "strategy"))
              \/ (Recorded(history', round_number, a, "score")
                    /\ ~ Recorded(history, round_number, a, "score")))
             => /\ pc = "score"
                /\ Len(scores'[a]) = Len(scores[a]) + 1
                /\ history'[round_number][a]["score"] = Last(scores'[a])
                /\ history'[round_number][a]["strategy"] = Last(strategies[a])]_vars

\* the communication phase of the second round of a run has just ended: the
\* message of every agent is in the history of the round, no strategy is,
\* and the first choice request is still to be made
C35_Witness ==
    /\ cfg.agents_communicate
    /\ CurrentCall = "run"
    /\ pc = "choose"
    /\ round_number = 2
    /\ idx = 1
    /\ request.phase = "communicate"
    /\ Finalized(1)
    /\ \A a \in Names(cfg.agents) :
          /\ Recorded(history, 2, a, "message")
          /\ ~ Recorded(history, 2, a, "strategy")

\* C36: the communication phase does not retry. Every step of it is the one
\* request of the agent whose turn it is: a text that is returned, whatever it
\* says, is stored as the message of the agent and the turn passes on; a
\* request that fails ends the call with its error at once
C36_NoRetryInCommunication ==
    [][pc = "communicate" =>
          /\ request'.phase = "communicate"
          /\ request'.agent = cfg.agents[idx]
          /\ request'.round = round_number
          /\ request'.count = 1
          /\ tries' = tries
          /\ IF request'.failed
             THEN /\ pc' = "error"
                  /\ err' = "ServiceError"
                  /\ history' = history
             ELSE /\ request'.response \in MessageResponses
                  /\ Recorded(history', round_number, cfg.agents[idx], "message")
                  /\ history'[round_number][cfg.agents[idx]]["message"]
                        = request'.response
                  /\ pc' # "error"
                  /\ err' = err
                  /\ \/ pc' = "communicate" /\ idx' = idx + 1
                     \/ pc' = "choose" /\ idx = Len(cfg.agents)]_vars

\* the first agent's message names no strategy and is stored, and the request
\* of the second agent has failed: the call has ended with the error after
\* that one request
C36_Witness ==
    /\ pc = "error"
    /\ err = "ServiceError"
    /\ request.phase = "communicate"
    /\ request.failed
    /\ request.count = 1
    /\ request.agent = cfg.agents[2]
    /\ Recorded(history, round_number, cfg.agents[1], "message")
    /\ history[round_number][cfg.agents[1]]["message"] = RespNoStrategy
    /\ ~ Recorded(history, round_number, cfg.agents[2], "message")

\* ------------------------------------------------------------------------
\* The prompts of the choice phase
\* ------------------------------------------------------------------------
\* the game of the state with the fields of the configuration that only the
\* prompt reads; the template shows the round and the history to the agent
RoundGame ==
    [agents |-> cfg.agents, team_mode |-> cfg.team_mode, teams |-> cfg.teams,
     team_id |-> cfg.team_id, n_rounds |-> cfg.n_rounds,
     payoff_matrix |-> cfg.payoff_matrix,
     stop_conditions |-> cfg.stop_conditions,
     agents_communicate |-> cfg.agents_communicate,
     personality |-> [a \in Names(cfg.agents) |-> "cooperative"],
     opponent_personality_prob |-> [a \in Names(cfg.agents) |-> 80],
     n_rounds_known |-> TRUE,
     prompt_template |-> CommunicateSec \o ChooseSec]

\* self.create_prompt(agent, phase='choose') of GameRound.run for the round
\* round_number_ when the rounds of the history are history_
ChoosePrompt(a, round_number_, history_) ==
    create_prompt(RoundGame, AgentOf(RoundGame, a), round_number_, history_,
                  "choose").out

\* C37: no agent sees a choice of the round it is choosing in. While the
\* agents of a round started by run() choose, the history of the round holds
\* no strategy and no score, and no attempt of the choice phase, whatever
\* the response to it, changes the prompt GameRound.create_prompt builds for
\* any agent: the agent asked later gets the prompt it would have got had
\* the agents before it answered differently
C37_NoLeakInChoosePrompt ==
    [][pc = "choose" =>
          /\ DrivenBy("run") =>
                \A a \in Names(cfg.agents) :
                    /\ ~ Recorded(history, round_number, a, "strategy")
                    /\ ~ Recorded(history, round_number, a, "score")
          /\ \A a \in Names(cfg.agents) :
                \E prompt \in {ChoosePrompt(a, round_number, history)} :
                    /\ prompt.err = "none"
                    /\ pc' \in {"choose", "score"} =>
                          /\ round_number' = round_number
                          /\ \E rounds \in {history'} :
                                ChoosePrompt(a, round_number, rounds) = prompt]_vars

\* in the second round of a game with communication the first agent has
\* chosen and the second is about to be asked: its prompt shows the history,
\* which holds the first round and the messages of the second
C37_Witness ==
    /\ pc = "choose"
    /\ DrivenBy("run")
    /\ cfg.agents_communicate
    /\ round_number = 2
    /\ idx = 2
    /\ cfg.agents[1] \in DOMAIN round_strategies
    /\ Len(strategies[cfg.agents[1]]) = 2
    /\ Finalized(1)
    /\ Recorded(history, 2, cfg.agents[1], "message")
    /\ \E made \in {ChoosePrompt(cfg.agents[2], round_number, history)} :
          /\ made.err = "none"
          /\ \E k \in 1..Len(made.prompt) : made.prompt[k] = StrDict(history)

\* ------------------------------------------------------------------------
\* Properties of the bookkeeping of run()
\* ------------------------------------------------------------------------
\* the loop of run() is at its test: before the first round, between two
\* rounds (the next GameRound is made and has asked nobody) or after the last
RoundBoundary ==
    /\ DrivenBy("run")
    /\ \/ pc = "idle"
       \/ /\ pc \in {"communicate", "choose"}
          /\ idx = 1
          /\ round_strategies = << >>
          /\ tries = Tries
          /\ request.round # round_number

\* C38: at every round boundary of a game driven by run() choices_made has
\* one entry per round before current_round, the history holds exactly the
\* rounds 1 .. current_round - 1, and each of them holds a strategy and a
\* score for every agent
C38_RunBookkeeping ==
    RoundBoundary =>
        /\ Len(choices_made) = current_round - 1
        /\ DOMAIN history = 1..(current_round - 1)
        /\ \A r \in 1..(current_round - 1) : Finalized(r)

\* the boundary between the first and the second round of a game
C38_Witness ==
    /\ RoundBoundary
    /\ CurrentCall = "run"
    /\ pc = "choose"
    /\ current_round = 2
    /\ round_number = 2
    /\ Len(choices_made) = 1
    /\ Finalized(1)

\* the boundary after the last round: run() has returned
C38_WitnessReturned ==
    /\ RoundBoundary
    /\ CurrentCall = "run"
    /\ pc = "idle"
    /\ current_round = cfg.n_rounds + 1
    /\ Len(choices_made) = cfg.n_rounds

\* C39: run() is idempotent once it has returned. A call of run() on a game
\* whose last call was a run() that returned makes no request, begins no
\* round and changes neither current_round, choices_made, the strategies and
\* scores of the agents nor the history
C39_RunIdempotent ==
    [][(/\ pc = "idle"
        /\ CurrentCall = "run"
        /\ call_log' = Append(call_log, "run")) =>
          /\ pc' = "idle"
          /\ ~ LoopCondition(current_round, choices_made)
          /\ UNCHANGED << current_round, choices_made, strategies, scores,
                          history, request, played, round_number,
                          round_strategies, err >>]_vars

\* run() was called again after it had played every round
C39_Witness ==
    /\ call_log = << "run", "run" >>
    /\ pc = "idle"
    /\ played = cfg.n_rounds
    /\ current_round = cfg.n_rounds + 1
    /\ ~ LastChoiceStops

\* run() was called again after a stop condition had ended it before the
\* last round
C39_WitnessStopped ==
    /\ call_log = << "run", "run" >>
    /\ pc = "idle"
    /\ played < cfg.n_rounds
    /\ current_round <= cfg.n_rounds
    /\ LastChoiceStops

\* C40: a round of a classic game that raises leaves the results as they
\* were. When run_round has raised in a game driven by run(), no agent has a
\* score for the round, the history holds no strategy and no score for the
\* round, current_round is the round that raised, the agents that had chosen
\* have the strategy of the round and the others do not, and choices_made
\* has an entry for the round only if the scoring raised
C40_AbortLeavesResults ==
    (pc = "error" /\ ~ cfg.team_mode /\ DrivenBy("run")) =>
        /\ current_round = round_number
        /\ \A a \in Names(cfg.agents) :
              /\ Len(scores[a]) <= round_number - 1
              /\ ~ Recorded(history, round_number, a, "strategy")
              /\ ~ Recorded(history, round_number, a, "score")
              /\ Len(strategies[a]) =
                    IF a \in DOMAIN round_strategies
                    THEN round_number ELSE round_number - 1
        /\ \/ Len(choices_made) = round_number - 1
           \/ /\ Len(choices_made) = round_number
              /\ DOMAIN round_strategies = Names(cfg.agents)
              /\ choices_made[round_number] = AgentChoices

=============================================================================
